---- MODULE Spec2Model ----
(***************************************************************************)
(* Encrypted chunked-upload pipeline of the file vault: the three-phase    *)
(* upload protocol (init / chunk / finalize / cancel) over the ephemeral   *)
(* key-value store and the chunk staging directory, the quota ledger on    *)
(* the users table, the KEK registry with its in-memory cache, the expiry  *)
(* sweeper and the streaming download.                                     *)
(*                                                                         *)
(* Every handler is a sequence of steps, one per suspension point (a KV    *)
(* round-trip, a DB statement or commit, a disk write).  Time is a         *)
(* discrete clock; one tick stands for half of the 24-hour upload TTL.     *)
(* AEAD is symbolic: a ciphertext records the key, the nonce and the       *)
(* plaintext, and opens only under the same key and nonce.                 *)
(***************************************************************************)
EXTENDS Integers, Sequences, FiniteSets, TLC

\* ------------------------------------------------------------------ bounds
MaxTime == 3
MaxUploads == 2
MaxSweptUploads == 3
MaxChunks == 2
MaxFiles == 2

\* ------------------------------------------------- program constants (scaled)
\* Durations are counted in ticks: the 24-hour upload TTL is two ticks and the
\* 1-hour download TTL is rounded up to one.  Sizes are counted in units that
\* make the 1 GiB quota two; the per-file limit (50 GiB in the source) keeps
\* its place above the quota.
UPLOAD_EXPIRATION_SECS == 2
DOWNLOAD_EXPIRATION_SECS == 1
MAX_FILE_SIZE == 3
Quota == 2

Users == {"u1"}
\* the rows of the users table: the user whose requests are followed, and one more
Accounts == Users \cup {"u2"}
Tasks == {"t1", "t2"}
Data == {"a", "b"}
NoFolder == "none"
FolderIds == {"d1", "d2"}
ChunkIdx == 0..MaxChunks
FileSizes == 0..(MAX_FILE_SIZE + 1)
NonceIds == 1..(2 * MaxSweptUploads * MaxChunks + MaxFiles + 6)

VARIABLES
    now,        \* the clock (Utc::now().timestamp())
    kv,         \* KV store, keys upload:{user}:{id} -> UploadMetadata (+ expiry)
    lock,       \* KV store, keys user_uploading:{user} -> expiry
    dlock,      \* KV store, keys user_downloading:{user} -> expiry
    disk,       \* staging directory: <<upload id, index>> -> ciphertext
    used,       \* users.storage_used_bytes
    files,      \* files table, in insertion order
    rowLock,    \* who holds the FOR UPDATE lock on a users row
    task,       \* the requests in flight and their last responses
    sweep,      \* the expiry sweeper's position
    nextUpload, \* number of upload ids handed out so far
    keks,       \* keks table: version -> row
    kekCache,   \* KekCache of each server instance
    kekCall,    \* KEK registry calls in flight, per caller
    booted,     \* which instances have completed ensure_kek_exists
    nextKey,    \* number of keys generated so far
    wraps,      \* history: the (version, key) pairs DEKs were wrapped under
    accepted,   \* history: per upload and index, the plaintexts accepted
    pipe,       \* the download stream's pipeline
    sessions,   \* KV store, keys session:{id} -> Session (+ expiry)
    csrf,       \* KV store, keys csrf:{token} -> expiry
    req,        \* HTTP requests on their way through the router's layers
    ended,      \* history: the session ids that were logged out
    nextSession,        \* number of session ids handed out so far
    upload_limiter,     \* permits available in UploadRateLimiter's semaphore
    chunk_req,          \* upload_chunk calls and the permit each one holds
    download_limiter,   \* permits available in DownloadRateLimiter's semaphore
    download_req,       \* download_file calls, their permits and response bodies
    storage_quota_bytes, \* users.storage_quota_bytes
    credentials,        \* users.password, users.encrypted_dek, users.dek_salt
    folders             \* the folders table: id -> user_id, parent_folder_id, is_deleted

\* the router's side of the state and the two buffer-slot semaphores
front == <<sessions, csrf, req, ended, nextSession, upload_limiter, chunk_req,
           download_limiter, download_req, storage_quota_bytes, credentials, folders>>

\* the storage side of the state
core == <<now, kv, lock, dlock, disk, used, files, rowLock, task, sweep,
          nextUpload, keks, kekCache, kekCall, booted, nextKey, wraps, accepted, pipe>>

vars == <<now, kv, lock, dlock, disk, used, files, rowLock, task, sweep,
          nextUpload, keks, kekCache, kekCall, booted, nextKey, wraps, accepted, pipe,
          sessions, csrf, req, ended, nextSession, upload_limiter, chunk_req,
          download_limiter, download_req, storage_quota_bytes, credentials, folders>>

\* ------------------------------------------------------------ AEAD (aes.rs)
MasterKey == <<"master">>
Dek(u) == <<"dek", u>>
KekKey(i) == <<"kek", i>>

Encrypt(key, plaintext, nonce) == [k |-> key, n |-> nonce, p |-> plaintext]

DecryptOk(key, ct, nonce) == ct.k = key /\ ct.n = nonce

Decrypt(key, ct, nonce) == IF DecryptOk(key, ct, nonce) THEN ct.p ELSE <<"CryptoError">>

\* ------------------------------------- passwords (services/auth.rs, dek.rs)
\* salts and nonces come from OsRng: any value, equal ones included
MaxSalts == 2
Salts == 1..MaxSalts
Passwords == {"p1", "p2"}

\* the PHC string: the salt in clear next to the Argon2id output
hash_password(password, salt) ==
    [salt |-> salt, hash |-> <<"argon2id", password, salt>>]

\* PasswordHash::new(hash), then the password hashed again under its salt
verify_password(password, hash) ==
    hash_password(password, hash.salt).hash = hash.hash

derive_key_from_password(password, salt) == <<"argon2id-key", password, salt>>

\* the ciphertext with the nonce appended
Combined(ciphertext, nonce) == <<ciphertext, nonce>>

create_user_dek(dek, user_password, salt, nonce) ==
    [encrypted_dek |-> Combined(Encrypt(derive_key_from_password(user_password, salt),
                                        dek, nonce), nonce),
     dek_salt |-> salt]

\* split_at(len - 12), then aes::decrypt under the key derived from the password
decrypt_user_dek(encrypted_dek_with_nonce, salt, user_password) ==
    Decrypt(derive_key_from_password(user_password, salt),
            encrypted_dek_with_nonce[1], encrypted_dek_with_nonce[2])

\* a rewrap under the key derived from the old password
change_user_password_dek_old_key(enc_dek, old_salt, old_password, new_password, new_salt, new_nonce) ==
    LET dek == decrypt_user_dek(enc_dek, old_salt, old_password)
    IN IF dek = <<"CryptoError">>
         THEN [error |-> "Encryption"]
         ELSE create_user_dek(dek, old_password, new_salt, new_nonce)

change_user_password_dek(enc_dek, old_salt, old_password, new_password, new_salt, new_nonce) ==
    LET dek == decrypt_user_dek(enc_dek, old_salt, old_password)
    IN IF dek = <<"CryptoError">>
         THEN [error |-> "Encryption"]
         ELSE create_user_dek(dek, new_password, new_salt, new_nonce)

\* the columns create_user inserts
create_user(u, password, hash_salt, dek_salt, nonce) ==
    [password |-> hash_password(password, hash_salt)]
    @@ create_user_dek(Dek(u), password, dek_salt, nonce)

\* nonces in use anywhere in the state; a fresh random nonce differs from all
NoncesOfTable(tab) == {tab[i].nonce : i \in DOMAIN tab}

NoncesOfTask(r) ==
    (IF "nonce" \in DOMAIN r THEN {r.nonce} ELSE {})
    \cup (IF "md" \in DOMAIN r THEN {r.md.chunk_nonces[i] : i \in DOMAIN r.md.chunk_nonces} ELSE {})

UsedNonces ==
    UNION {{kv[k].md.chunk_nonces[i] : i \in DOMAIN kv[k].md.chunk_nonces} : k \in DOMAIN kv}
    \cup {disk[c].n : c \in DOMAIN disk}
    \cup UNION {NoncesOfTable(files[f].chunks_metadata) \cup {files[f].nonce} : f \in DOMAIN files}
    \cup UNION {NoncesOfTask(task[t]) : t \in Tasks}
    \cup UNION {NoncesOfTask(sweep)}

generate_nonce == CHOOSE n \in NonceIds : n \notin UsedNonces

\* ------------------------------------------------------------- small helpers
Idle == [op |-> "idle", pc |-> "done", res |-> "none"]

\* the slot is free: no request in it, the last response delivered
Quiet(t) == task[t] = Idle

SetTask(t, r) == task' = [task EXCEPT ![t] = r]

\* the response of a handler; its locals are dropped with its frame
Outcome(o, result) == [op |-> o, pc |-> "done", res |-> result]

Finish(t, result) == SetTask(t, Outcome(task[t].op, result))

\* the response of a request on the upload ledger, with what the request saw
\* of the ledger when it arrived
Closed(r, result) ==
    [op |-> r.op, pc |-> "done", res |-> result, u |-> r.u, id |-> r.id,
     used0 |-> r.used0, nfiles0 |-> r.nfiles0]

Goto(t, label) == SetTask(t, [task[t] EXCEPT !.pc = label])

At(t, o, label) == task[t].op = o /\ task[t].pc = label

Drop(f, k) == [x \in DOMAIN f \ {k} |-> f[x]]

Put(f, k, v) == [x \in DOMAIN f \cup {k} |-> IF x = k THEN v ELSE f[x]]

Max(a, b) == IF a >= b THEN a ELSE b

RECURSIVE SumSizes(_)
SumSizes(S) ==
    IF S = {} THEN 0
    ELSE LET f == CHOOSE x \in S : TRUE IN files[f].file_size + SumSizes(S \ {f})

LiveFiles(u) == {f \in DOMAIN files : files[f].user_id = u /\ ~files[f].is_deleted}

\* history of one chunk slot: how often a chunk was accepted (0, 1, many) and
\* the plaintext accepted last
NotSent == [n |-> 0, d |-> "-"]

Sent(h, data) == [n |-> IF h.n = 0 THEN 1 ELSE 2, d |-> data]

\* the request's snapshot of the ledger, kept with the response
Snap(u) == [used0 |-> used[u], nfiles0 |-> Len(files)]

\* ---------------------------------------------------------------- the clock
\* a key set with TTL d at tick t is gone at some moment of tick t + d
Due == {k \in DOMAIN kv : kv[k].exp <= now}

Tick ==
    /\ now < MaxTime
    /\ Due = {}
    /\ \A u \in DOMAIN lock : lock[u] > now
    /\ \A u \in DOMAIN dlock : dlock[u] > now
    /\ now' = now + 1
    /\ UNCHANGED <<kv, lock, dlock, disk, used, files, rowLock, task, sweep,
                   nextUpload, keks, kekCache, kekCall, booted, nextKey, wraps, accepted, pipe, front>>

ExpireUpload(k) ==
    /\ k \in Due
    /\ kv' = Drop(kv, k)
    /\ UNCHANGED <<now, lock, dlock, disk, used, files, rowLock, task, sweep,
                   nextUpload, keks, kekCache, kekCall, booted, nextKey, wraps, accepted, pipe, front>>

ExpireLock(u) ==
    /\ u \in DOMAIN lock
    /\ lock[u] <= now
    /\ lock' = Drop(lock, u)
    /\ UNCHANGED <<now, kv, dlock, disk, used, files, rowLock, task, sweep,
                   nextUpload, keks, kekCache, kekCall, booted, nextKey, wraps, accepted, pipe, front>>

ExpireDownloadLock(u) ==
    /\ u \in DOMAIN dlock
    /\ dlock[u] <= now
    /\ dlock' = Drop(dlock, u)
    /\ UNCHANGED <<now, kv, lock, disk, used, files, rowLock, task, sweep,
                   nextUpload, keks, kekCache, kekCall, booted, nextKey, wraps, accepted, pipe, front>>

\* --------------------------------------------------------------- init_upload
\* the checks with the per-file limit taken as exclusive
InitUploadCheckLock_strict(t, u, file_size, total_chunks) ==
    /\ Quiet(t)
    /\ IF u \in DOMAIN lock
         THEN SetTask(t, Outcome("init", "Validation:upload active"))
       ELSE IF file_size <= 0
         THEN SetTask(t, Outcome("init", "Validation:file size"))
       ELSE IF file_size >= MAX_FILE_SIZE
         THEN SetTask(t, Outcome("init", "Validation:max size"))
       ELSE IF total_chunks = 0
         THEN SetTask(t, Outcome("init", "Validation:total_chunks"))
       ELSE SetTask(t, [op |-> "init", pc |-> "i_quota", res |-> "none", u |-> u,
                        file_size |-> file_size, total_chunks |-> total_chunks, id |-> 0])
    /\ UNCHANGED <<now, kv, lock, dlock, disk, used, files, rowLock, sweep,
                   nextUpload, keks, kekCache, kekCall, booted, nextKey, wraps, accepted, pipe, front>>

\* GET user_uploading:{user}, then the checks on the request's fields
InitUploadCheckLock(t, u, file_size, total_chunks) ==
    /\ Quiet(t)
    /\ IF u \in DOMAIN lock
         THEN SetTask(t, Outcome("init", "Validation:upload active"))
       ELSE IF file_size <= 0
         THEN SetTask(t, Outcome("init", "Validation:file size"))
       ELSE IF file_size > MAX_FILE_SIZE
         THEN SetTask(t, Outcome("init", "Validation:max size"))
       ELSE IF total_chunks = 0
         THEN SetTask(t, Outcome("init", "Validation:total_chunks"))
       ELSE SetTask(t, [op |-> "init", pc |-> "i_quota", res |-> "none", u |-> u,
                        file_size |-> file_size, total_chunks |-> total_chunks, id |-> 0])
    /\ UNCHANGED <<now, kv, lock, dlock, disk, used, files, rowLock, sweep,
                   nextUpload, keks, kekCache, kekCall, booted, nextKey, wraps, accepted, pipe, front>>

\* an admission test that debits the reservation when it admits
InitUploadQuota_debiting(t) ==
    /\ At(t, "init", "i_quota")
    /\ rowLock[task[t].u] = "free"
    /\ IF task[t].file_size > storage_quota_bytes[task[t].u] - used[task[t].u]
         THEN Finish(t, "Validation:quota") /\ UNCHANGED used
         ELSE /\ Goto(t, "i_set")
              /\ used' = [used EXCEPT ![task[t].u] = @ + task[t].file_size]
    /\ UNCHANGED <<now, kv, lock, dlock, disk, files, rowLock, sweep,
                   nextUpload, keks, kekCache, kekCall, booted, nextKey, wraps, accepted, pipe, front>>

\* SELECT ... FOR UPDATE, compare, commit or roll back: nothing is written
InitUploadQuota(t) ==
    /\ At(t, "init", "i_quota")
    /\ rowLock[task[t].u] = "free"
    /\ IF task[t].file_size > storage_quota_bytes[task[t].u] - used[task[t].u]
         THEN Finish(t, "Validation:quota")
         ELSE Goto(t, "i_set")
    /\ UNCHANGED <<now, kv, lock, dlock, disk, used, files, rowLock, sweep,
                   nextUpload, keks, kekCache, kekCall, booted, nextKey, wraps, accepted, pipe, front>>

NewMetadata(id, u, file_size, total_chunks) ==
    [upload_session_id |-> id,
     user_id |-> u,
     total_size |-> file_size,
     total_chunks |-> total_chunks,
     chunks_received_count |-> 0,
     created_at |-> now,
     chunks_written_bytes |-> 0,
     chunk_nonces |-> [i \in 0..(total_chunks - 1) |-> 0]]

\* SET upload:{user}:{id} with the 24-hour TTL
InitUploadSetSession(t) ==
    /\ At(t, "init", "i_set")
    /\ LET id == nextUpload + 1
           md == NewMetadata(id, task[t].u, task[t].file_size, task[t].total_chunks)
       IN /\ nextUpload' = id
          /\ kv' = Put(kv, <<task[t].u, id>>, [md |-> md, exp |-> now + UPLOAD_EXPIRATION_SECS])
          /\ accepted' = Put(accepted, id, [i \in 0..(task[t].total_chunks - 1) |-> NotSent])
          /\ SetTask(t, [task[t] EXCEPT !.pc = "i_setlock", !.id = id])
    /\ UNCHANGED <<now, lock, dlock, disk, used, files, rowLock, sweep,
                   keks, kekCache, kekCall, booted, nextKey, wraps, pipe, front>>

\* a lock key stored with no TTL
InitUploadSetLock_persistent(t) ==
    /\ At(t, "init", "i_setlock")
    /\ lock' = Put(lock, task[t].u, MaxTime + 1)
    /\ Finish(t, "OK")
    /\ UNCHANGED <<now, kv, dlock, disk, used, files, rowLock, sweep,
                   nextUpload, keks, kekCache, kekCall, booted, nextKey, wraps, accepted, pipe, front>>

\* SET user_uploading:{user} with the same TTL
InitUploadSetLock(t) ==
    /\ At(t, "init", "i_setlock")
    /\ lock' = Put(lock, task[t].u, now + UPLOAD_EXPIRATION_SECS)
    /\ Finish(t, "OK")
    /\ UNCHANGED <<now, kv, dlock, disk, used, files, rowLock, sweep,
                   nextUpload, keks, kekCache, kekCall, booted, nextKey, wraps, accepted, pipe, front>>

\* init_upload once the lock was found free and the request valid
init_upload(t) ==
    \/ InitUploadQuota(t)
    \/ InitUploadSetSession(t)
    \/ InitUploadSetLock(t)

\* --------------------------------------------------------------- upload_chunk
\* a range check that lets chunk_index == total_chunks through
UploadChunkLoad_inclusive(t, u, id, idx, data) ==
    /\ Quiet(t)
    /\ LET k == <<u, id>> IN
       IF k \notin DOMAIN kv
         THEN SetTask(t, Outcome("chunk", "Internal:decode"))
       ELSE IF idx > kv[k].md.total_chunks
         THEN SetTask(t, Outcome("chunk", "Validation:chunk index"))
       ELSE SetTask(t, [op |-> "chunk", pc |-> "c_write", res |-> "none",
                        u |-> u, id |-> id, idx |-> idx, data |-> data,
                        md |-> kv[k].md, nonce |-> generate_nonce])
    /\ UNCHANGED <<now, kv, lock, dlock, disk, used, files, rowLock, sweep,
                   nextUpload, keks, kekCache, kekCall, booted, nextKey, wraps, accepted, pipe, front>>

\* GET upload:{user}:{id}, decode, range check, encrypt under the session DEK
UploadChunkLoad(t, u, id, idx, data) ==
    /\ Quiet(t)
    /\ LET k == <<u, id>> IN
       IF k \notin DOMAIN kv
         THEN SetTask(t, Outcome("chunk", "Internal:decode"))
       ELSE IF idx >= kv[k].md.total_chunks
         THEN SetTask(t, Outcome("chunk", "Validation:chunk index"))
       ELSE SetTask(t, [op |-> "chunk", pc |-> "c_write", res |-> "none",
                        u |-> u, id |-> id, idx |-> idx, data |-> data,
                        md |-> kv[k].md, nonce |-> generate_nonce])
    /\ UNCHANGED <<now, kv, lock, dlock, disk, used, files, rowLock, sweep,
                   nextUpload, keks, kekCache, kekCall, booted, nextKey, wraps, accepted, pipe, front>>

\* File::create + write_all + flush of {id}_{idx}.encrypted_chunk
UploadChunkWrite(t) ==
    /\ At(t, "chunk", "c_write")
    /\ disk' = Put(disk, <<task[t].id, task[t].idx>>,
                   Encrypt(Dek(task[t].u), task[t].data, task[t].nonce))
    /\ Goto(t, "c_save")
    /\ UNCHANGED <<now, kv, lock, dlock, used, files, rowLock, sweep,
                   nextUpload, keks, kekCache, kekCall, booted, nextKey, wraps, accepted, pipe, front>>

\* a rewrite that counts an index the first time only
UpdatedMetadata_once(md, idx, nonce) ==
    [md EXCEPT !.chunk_nonces[idx] = nonce,
               !.chunks_received_count = IF md.chunk_nonces[idx] = 0 THEN @ + 1 ELSE @,
               !.chunks_written_bytes = @ + 1]

\* the metadata as upload_chunk rewrites it: no test of the slot's old nonce
UpdatedMetadata(md, idx, nonce) ==
    [md EXCEPT !.chunk_nonces[idx] = nonce,
               !.chunks_received_count = @ + 1,
               !.chunks_written_bytes = @ + 1]

\* SET upload:{user}:{id} with the copy loaded before, and a fresh TTL
UploadChunkSave(t) ==
    /\ At(t, "chunk", "c_save")
    /\ kv' = Put(kv, <<task[t].u, task[t].id>>,
                 [md |-> UpdatedMetadata(task[t].md, task[t].idx, task[t].nonce),
                  exp |-> now + UPLOAD_EXPIRATION_SECS])
    /\ accepted' = [accepted EXCEPT ![task[t].id][task[t].idx] = Sent(@, task[t].data)]
    /\ Finish(t, "OK")
    /\ UNCHANGED <<now, lock, dlock, disk, used, files, rowLock, sweep,
                   nextUpload, keks, kekCache, kekCall, booted, nextKey, wraps, pipe, front>>

\* upload_chunk once the session was loaded and the index accepted
upload_chunk(t) ==
    \/ UploadChunkWrite(t)
    \/ UploadChunkSave(t)

\* ------------------------------------------------------ cleanup_failed_upload
\* entered from finalize_upload and cancel_upload with the metadata they loaded
EnterCleanup(r, md, after) ==
    [op |-> r.op, pc |-> "cl_files", res |-> "none", u |-> r.u, id |-> r.id,
     used0 |-> r.used0, nfiles0 |-> r.nfiles0, md |-> md, after |-> after]

\* the staged files cleanup removes: indices 0 .. chunks_received_count - 1
CleanupTargets(id, md) == {<<id, i>> : i \in 0..(md.chunks_received_count - 1)}

RemoveFiles(d, targets) == [c \in DOMAIN d \ targets |-> d[c]]

CleanupRemoveChunks(t) ==
    /\ task[t].pc = "cl_files"
    /\ disk' = RemoveFiles(disk, CleanupTargets(task[t].id, task[t].md))
    /\ Goto(t, "cl_key")
    /\ UNCHANGED <<now, kv, lock, dlock, used, files, rowLock, sweep,
                   nextUpload, keks, kekCache, kekCall, booted, nextKey, wraps, accepted, pipe, front>>

\* a cleanup that goes on without deleting upload:{user}:{id}
CleanupDelSession_skipped(t) ==
    /\ task[t].pc = "cl_key"
    /\ Goto(t, "cl_lock")
    /\ UNCHANGED <<now, kv, lock, dlock, disk, used, files, rowLock, sweep,
                   nextUpload, keks, kekCache, kekCall, booted, nextKey, wraps, accepted, pipe, front>>

CleanupDelSession(t) ==
    /\ task[t].pc = "cl_key"
    /\ kv' = Drop(kv, <<task[t].u, task[t].id>>)
    /\ Goto(t, "cl_lock")
    /\ UNCHANGED <<now, lock, dlock, disk, used, files, rowLock, sweep,
                   nextUpload, keks, kekCache, kekCall, booted, nextKey, wraps, accepted, pipe, front>>

\* a cleanup that answers without deleting user_uploading:{user}
CleanupDelLock_skipped(t) ==
    /\ task[t].pc = "cl_lock"
    /\ SetTask(t, Closed(task[t], task[t].after))
    /\ UNCHANGED <<now, kv, lock, dlock, disk, used, files, rowLock, sweep,
                   nextUpload, keks, kekCache, kekCall, booted, nextKey, wraps, accepted, pipe, front>>

CleanupDelLock(t) ==
    /\ task[t].pc = "cl_lock"
    /\ lock' = Drop(lock, task[t].u)
    /\ SetTask(t, Closed(task[t], task[t].after))
    /\ UNCHANGED <<now, kv, dlock, disk, used, files, rowLock, sweep,
                   nextUpload, keks, kekCache, kekCall, booted, nextKey, wraps, accepted, pipe, front>>

cleanup_failed_upload(t) ==
    \/ CleanupRemoveChunks(t)
    \/ CleanupDelSession(t)
    \/ CleanupDelLock(t)

\* ------------------------------------------------------------- KEK registry
Instances == {"A", "B"}

MaxKeys == 3

ActiveVersions == {v \in DOMAIN keks : keks[v].is_active /\ ~keks[v].is_deprecated}

\* SELECT ... WHERE is_active AND NOT is_deprecated ORDER BY version DESC LIMIT 1
ActiveRow == IF ActiveVersions = {} THEN 0
             ELSE CHOOSE v \in ActiveVersions : \A w \in ActiveVersions : w <= v

KekRow(key, active) ==
    [encrypted_keydata |-> Encrypt(MasterKey, key, key[2]), nonce |-> key[2],
     is_active |-> active, is_deprecated |-> FALSE]

\* INSERT ... ON CONFLICT (version) DO NOTHING
InsertKek(table, version, row) ==
    IF version \in DOMAIN table THEN table ELSE Put(table, version, row)

\* aes::decrypt(master_key, r.encrypted_keydata, r.nonce)
UnwrapRow(row) == Decrypt(MasterKey, row.encrypted_keydata, row.nonce)

\* KekCache::insert
CacheInsert(cache, inst, version, keydata) ==
    [cache EXCEPT ![inst] = Put(@, version, keydata)]

\* get_active_kek run to completion by instance inst: what it returns and writes
get_active_kek(inst) ==
    LET v == ActiveRow IN
    IF v # 0 THEN
        IF v \in DOMAIN kekCache[inst]
          THEN [version |-> v, keydata |-> kekCache[inst][v], keks |-> keks,
                cache |-> kekCache, nextKey |-> nextKey]
          ELSE [version |-> v, keydata |-> UnwrapRow(keks[v]), keks |-> keks,
                cache |-> CacheInsert(kekCache, inst, v, UnwrapRow(keks[v])),
                nextKey |-> nextKey]
    ELSE LET key == KekKey(nextKey + 1) IN
         [version |-> 1, keydata |-> key,
          keks |-> InsertKek(keks, 1, KekRow(key, TRUE)),
          cache |-> CacheInsert(kekCache, inst, 1, key),
          nextKey |-> nextKey + 1]

\* get_kek_by_version run to completion by instance inst
get_kek_by_version(inst, version) ==
    IF version \in DOMAIN kekCache[inst]
      THEN [keydata |-> kekCache[inst][version], keks |-> keks, cache |-> kekCache,
            nextKey |-> nextKey]
    ELSE IF version \in DOMAIN keks
      THEN [keydata |-> UnwrapRow(keks[version]), keks |-> keks,
            cache |-> CacheInsert(kekCache, inst, version, UnwrapRow(keks[version])),
            nextKey |-> nextKey]
    ELSE LET key == KekKey(nextKey + 1) IN
         [keydata |-> key,
          keks |-> InsertKek(keks, version, KekRow(key, version = 1)),
          cache |-> CacheInsert(kekCache, inst, version, key),
          nextKey |-> nextKey + 1]


\* ------------------------------------------------------------ finalize_upload
\* GET upload:{user}:{id}; an incomplete upload is cleaned up and refused
FinalizeLoadInto(t, u, id, folder_id) ==
    /\ Quiet(t)
    /\ LET k == <<u, id>>
           r == [op |-> "finalize", u |-> u, id |-> id] @@ Snap(u)
       IN IF k \notin DOMAIN kv
            THEN SetTask(t, Closed(r, "Internal:decode"))
          ELSE IF kv[k].md.chunks_received_count # kv[k].md.total_chunks
            THEN SetTask(t, EnterCleanup(r, kv[k].md, "Validation:incomplete"))
          ELSE SetTask(t, [op |-> "finalize", pc |-> "f_tx", res |-> "none",
                           u |-> u, id |-> id, used0 |-> r.used0, nfiles0 |-> r.nfiles0,
                           md |-> kv[k].md, folder_id |-> folder_id])
    /\ UNCHANGED <<now, kv, lock, dlock, disk, used, files, rowLock, sweep,
                   nextUpload, keks, kekCache, kekCall, booted, nextKey, wraps, accepted, pipe, front>>

\* a finalize request whose folder_id is None
FinalizeLoad(t, u, id) == FinalizeLoadInto(t, u, id, NoFolder)

\* BEGIN; SELECT ... FOR UPDATE; the admission test; UPDATE users (uncommitted)
FinalizeQuota(t) ==
    /\ At(t, "finalize", "f_tx")
    /\ rowLock[task[t].u] = "free"
    /\ IF task[t].md.total_size > storage_quota_bytes[task[t].u] - used[task[t].u]
         THEN /\ SetTask(t, EnterCleanup(task[t], task[t].md, "Validation:quota"))
              /\ UNCHANGED rowLock
         ELSE /\ rowLock' = [rowLock EXCEPT ![task[t].u] = t]
              /\ Goto(t, "f_kek")
    /\ UNCHANGED <<now, kv, lock, dlock, disk, used, files, sweep,
                   nextUpload, keks, kekCache, kekCall, booted, nextKey, wraps, accepted, pipe, front>>

ChunkInfo(index, nonce, filename, size_encrypted) ==
    [index |-> index, nonce |-> nonce, filename |-> filename,
     size_encrypted |-> size_encrypted]

\* a chunk table pushed in descending index order
BuildChunkTable_reversed(id, chunk_nonces) ==
    LET n == Cardinality(DOMAIN chunk_nonces) IN
    [j \in 1..n |-> ChunkInfo(n - j, chunk_nonces[n - j], <<id, n - j>>, 1)]

\* for (idx, nonce) in metadata.chunk_nonces.iter().enumerate()
BuildChunkTable(id, chunk_nonces) ==
    [j \in 1..Cardinality(DOMAIN chunk_nonces) |->
        ChunkInfo(j - 1, chunk_nonces[j - 1], <<id, j - 1>>, 1)]

\* get_active_kek(...)?: on an error the transaction is dropped, which rolls it
\* back; otherwise the session DEK is wrapped under the key returned
FinalizeKek(t, db_error) ==
    /\ At(t, "finalize", "f_kek")
    /\ IF db_error
         THEN /\ rowLock' = [rowLock EXCEPT ![task[t].u] = "free"]
              /\ SetTask(t, Closed(task[t], "Database:kek"))
              /\ UNCHANGED <<keks, kekCache, nextKey>>
         ELSE LET r == get_active_kek("A")
                  n == generate_nonce
              IN /\ keks' = r.keks
                 /\ kekCache' = r.cache
                 /\ nextKey' = r.nextKey
                 /\ UNCHANGED rowLock
                 /\ SetTask(t, [pc |-> "f_insert", nonce |-> n, dek_version |-> r.version,
                                encrypted_dek |-> Encrypt(r.keydata, Dek(task[t].u), n)]
                               @@ task[t])
    /\ UNCHANGED <<now, kv, lock, dlock, disk, used, files, sweep,
                   nextUpload, kekCall, booted, wraps, accepted, pipe, front>>

FileRecord(t) ==
    [user_id |-> task[t].u,
     total_chunks |-> task[t].md.total_chunks,
     chunks_metadata |-> BuildChunkTable(task[t].id, task[t].md.chunk_nonces),
     encrypted_dek |-> task[t].encrypted_dek,
     nonce |-> task[t].nonce,
     dek_version |-> task[t].dek_version,
     file_size |-> task[t].md.total_size,
     folder_id |-> task[t].folder_id,
     upload_status |-> "completed",
     is_deleted |-> FALSE]

\* INSERT INTO files; COMMIT: the debit and the row become visible together
FinalizeCommit(t, db_error) ==
    /\ At(t, "finalize", "f_insert")
    /\ rowLock' = [rowLock EXCEPT ![task[t].u] = "free"]
    /\ IF db_error
         THEN /\ SetTask(t, Closed(task[t], "Database:insert"))
              /\ UNCHANGED <<used, files>>
         ELSE /\ files' = Append(files, FileRecord(t))
              /\ used' = [used EXCEPT ![task[t].u] = @ + task[t].md.total_size]
              /\ SetTask(t, [op |-> "finalize", pc |-> "f_del", res |-> "none",
                             u |-> task[t].u, id |-> task[t].id,
                             used0 |-> task[t].used0, nfiles0 |-> task[t].nfiles0,
                             file_id |-> Len(files) + 1])
    /\ UNCHANGED <<now, kv, lock, dlock, disk, sweep,
                   nextUpload, keks, kekCache, kekCall, booted, nextKey, wraps, accepted, pipe, front>>

FinalizeDelSession(t) ==
    /\ At(t, "finalize", "f_del")
    /\ kv' = Drop(kv, <<task[t].u, task[t].id>>)
    /\ Goto(t, "f_dellock")
    /\ UNCHANGED <<now, lock, dlock, disk, used, files, rowLock, sweep,
                   nextUpload, keks, kekCache, kekCall, booted, nextKey, wraps, accepted, pipe, front>>

\* a finalize that answers without deleting user_uploading:{user}
FinalizeDelLock_skipped(t) ==
    /\ At(t, "finalize", "f_dellock")
    /\ SetTask(t, Closed(task[t], "OK"))
    /\ UNCHANGED <<now, kv, lock, dlock, disk, used, files, rowLock, sweep,
                   nextUpload, keks, kekCache, kekCall, booted, nextKey, wraps, accepted, pipe, front>>

FinalizeDelLock(t) ==
    /\ At(t, "finalize", "f_dellock")
    /\ lock' = Drop(lock, task[t].u)
    /\ SetTask(t, Closed(task[t], "OK"))
    /\ UNCHANGED <<now, kv, dlock, disk, used, files, rowLock, sweep,
                   nextUpload, keks, kekCache, kekCall, booted, nextKey, wraps, accepted, pipe, front>>

\* finalize_upload once the session was loaded and found complete
finalize_upload(t) ==
    \/ FinalizeQuota(t)
    \/ \E db_error \in BOOLEAN : FinalizeKek(t, db_error)
    \/ \E db_error \in BOOLEAN : FinalizeCommit(t, db_error)
    \/ FinalizeDelSession(t)
    \/ FinalizeDelLock(t)

\* --------------------------------------------------------------- cancel_upload
CancelLoad(t, u, id) ==
    /\ Quiet(t)
    /\ LET k == <<u, id>>
           r == [op |-> "cancel", u |-> u, id |-> id] @@ Snap(u)
       IN IF k \notin DOMAIN kv
            THEN SetTask(t, Closed(r, "Internal:decode"))
            ELSE SetTask(t, EnterCleanup(r, kv[k].md, "OK"))
    /\ UNCHANGED <<now, kv, lock, dlock, disk, used, files, rowLock, sweep,
                   nextUpload, keks, kekCache, kekCall, booted, nextKey, wraps, accepted, pipe, front>>

\* ----------------------------------------------------------------- delete_file
\* a lookup by file id alone
DeleteRead_unscoped(t, u, f) ==
    /\ Quiet(t)
    /\ IF f \notin DOMAIN files
         THEN SetTask(t, Outcome("delete", "NotFound"))
       ELSE IF files[f].is_deleted
         THEN SetTask(t, Outcome("delete", "Validation:already deleted"))
       ELSE SetTask(t, [op |-> "delete", pc |-> "d_tx", res |-> "none", u |-> u,
                        file_id |-> f, file_size |-> files[f].file_size])
    /\ UNCHANGED <<now, kv, lock, dlock, disk, used, files, rowLock, sweep,
                   nextUpload, keks, kekCache, kekCall, booted, nextKey, wraps, accepted, pipe, front>>

\* SELECT id, file_size, is_deleted FROM files WHERE id = $1 AND user_id = $2
DeleteRead(t, u, f) ==
    /\ Quiet(t)
    /\ IF f \notin DOMAIN files \/ files[f].user_id # u
         THEN SetTask(t, Outcome("delete", "NotFound"))
       ELSE IF files[f].is_deleted
         THEN SetTask(t, Outcome("delete", "Validation:already deleted"))
       ELSE SetTask(t, [op |-> "delete", pc |-> "d_tx", res |-> "none", u |-> u,
                        file_id |-> f, file_size |-> files[f].file_size])
    /\ UNCHANGED <<now, kv, lock, dlock, disk, used, files, rowLock, sweep,
                   nextUpload, keks, kekCache, kekCall, booted, nextKey, wraps, accepted, pipe, front>>

\* GREATEST(0, storage_used_bytes - $1)
Release(u, size) == [used EXCEPT ![u] = Max(0, @ - size)]

\* UPDATE files SET is_deleted; UPDATE users (release); COMMIT
DeleteCommit(t) ==
    /\ At(t, "delete", "d_tx")
    /\ rowLock[task[t].u] = "free"
    /\ files' = [files EXCEPT ![task[t].file_id].is_deleted = TRUE]
    /\ used' = Release(task[t].u, task[t].file_size)
    /\ Finish(t, "OK")
    /\ UNCHANGED <<now, kv, lock, dlock, disk, rowLock, sweep,
                   nextUpload, keks, kekCache, kekCall, booted, nextKey, wraps, accepted, pipe, front>>

\* services::files::delete_file: file_repo::soft_delete_file on the pool,
\* UPDATE files SET is_deleted = true WHERE ... AND is_deleted = false
\* RETURNING file_size
ServiceDeleteMark(t, u, f) ==
    /\ Quiet(t)
    /\ IF f \notin DOMAIN files \/ files[f].user_id # u \/ files[f].is_deleted
         THEN /\ SetTask(t, Outcome("svc_delete", "NotFound"))
              /\ UNCHANGED files
         ELSE /\ files' = [files EXCEPT ![f].is_deleted = TRUE]
              /\ SetTask(t, [op |-> "svc_delete", pc |-> "sd_tx", res |-> "none", u |-> u,
                             file_id |-> f, file_size |-> files[f].file_size])
    /\ UNCHANGED <<now, kv, lock, dlock, disk, used, rowLock, sweep,
                   nextUpload, keks, kekCache, kekCall, booted, nextKey, wraps, accepted, pipe, front>>

\* then a transaction of its own: UPDATE users (release); COMMIT
ServiceDeleteRelease(t, db_error) ==
    /\ At(t, "svc_delete", "sd_tx")
    /\ rowLock[task[t].u] = "free"
    /\ IF db_error
         THEN /\ Finish(t, "Database:release")
              /\ UNCHANGED used
         ELSE /\ used' = Release(task[t].u, task[t].file_size)
              /\ Finish(t, "OK")
    /\ UNCHANGED <<now, kv, lock, dlock, disk, files, rowLock, sweep,
                   nextUpload, keks, kekCache, kekCall, booted, nextKey, wraps, accepted, pipe, front>>

\* ------------------------------------------------------ delete_folder_recursive
\* WITH RECURSIVE folder_tree: the folder $1 if it is of user $2, then every
\* folder whose parent is in the tree
RECURSIVE GrowTree(_)
GrowTree(tree) ==
    LET next == tree \cup {d \in DOMAIN folders : folders[d].parent_folder_id \in tree}
    IN IF next = tree THEN tree ELSE GrowTree(next)

folder_tree(folder_id, user_id) ==
    GrowTree({d \in DOMAIN folders : d = folder_id /\ folders[d].user_id = user_id})

\* UPDATE files SET is_deleted = true WHERE folder_id IN (folder_tree): a
\* statement of its own on the pool; users is not written
DeleteFolderFiles(t, u, folder_id) ==
    /\ Quiet(t)
    /\ files' = [f \in DOMAIN files |->
                   IF files[f].folder_id \in folder_tree(folder_id, u)
                     THEN [files[f] EXCEPT !.is_deleted = TRUE]
                     ELSE files[f]]
    /\ SetTask(t, [op |-> "delete_folder", pc |-> "df_folders", res |-> "none",
                   u |-> u, folder_id |-> folder_id])
    /\ UNCHANGED <<now, kv, lock, dlock, disk, used, rowLock, sweep,
                   nextUpload, keks, kekCache, kekCall, booted, nextKey, wraps, accepted, pipe, front>>

\* UPDATE folders SET is_deleted = true WHERE id IN (folder_tree)
DeleteFolderFolders(t) ==
    /\ At(t, "delete_folder", "df_folders")
    /\ folders' = [d \in DOMAIN folders |->
                     IF d \in folder_tree(task[t].folder_id, task[t].u)
                       THEN [folders[d] EXCEPT !.is_deleted = TRUE]
                       ELSE folders[d]]
    /\ Finish(t, "OK")
    /\ UNCHANGED <<now, kv, lock, dlock, disk, used, files, rowLock, sweep,
                   nextUpload, keks, kekCache, kekCall, booted, nextKey, wraps, accepted, pipe,
                   sessions, csrf, req, ended, nextSession, upload_limiter, chunk_req,
                   download_limiter, download_req, storage_quota_bytes, credentials>>

\* ------------------------------------------------------ recalculate_user_quota
\* SELECT COALESCE(SUM(file_size), 0) ... WHERE is_deleted = false
RecalculateSum(t, u) ==
    /\ Quiet(t)
    /\ SetTask(t, [op |-> "recalculate", pc |-> "r_upd", res |-> "none", u |-> u,
                   actual_size |-> SumSizes(LiveFiles(u))])
    /\ UNCHANGED <<now, kv, lock, dlock, disk, used, files, rowLock, sweep,
                   nextUpload, keks, kekCache, kekCall, booted, nextKey, wraps, accepted, pipe, front>>

\* an update that adds the sum to the ledger instead of assigning it
RecalculateCommit_adding(t) ==
    /\ At(t, "recalculate", "r_upd")
    /\ rowLock[task[t].u] = "free"
    /\ used' = [used EXCEPT ![task[t].u] = @ + task[t].actual_size]
    /\ Finish(t, "OK")
    /\ UNCHANGED <<now, kv, lock, dlock, disk, files, rowLock, sweep,
                   nextUpload, keks, kekCache, kekCall, booted, nextKey, wraps, accepted, pipe, front>>

\* UPDATE users SET storage_used_bytes = $1; COMMIT
RecalculateCommit(t) ==
    /\ At(t, "recalculate", "r_upd")
    /\ rowLock[task[t].u] = "free"
    /\ used' = [used EXCEPT ![task[t].u] = task[t].actual_size]
    /\ Finish(t, "OK")
    /\ UNCHANGED <<now, kv, lock, dlock, disk, files, rowLock, sweep,
                   nextUpload, keks, kekCache, kekCall, booted, nextKey, wraps, accepted, pipe, front>>

\* ------------------------------------------------------ cleanup_expired_uploads
SweepIdle == [pc |-> "s_idle"]

\* current_timestamp is read once; SCAN MATCH upload:* lists the keys
SweepStart ==
    /\ sweep.pc = "s_idle"
    /\ sweep' = [pc |-> "s_next", ts |-> now, keys |-> DOMAIN kv]
    /\ UNCHANGED <<now, kv, lock, dlock, disk, used, files, rowLock, task,
                   nextUpload, keks, kekCache, kekCall, booted, nextKey, wraps, accepted, pipe, front>>

\* current_timestamp - metadata.created_at > 86400
IsExpired(ts, md) == ts - md.created_at > UPLOAD_EXPIRATION_SECS

\* GET key, decode, and the test of the session's age
SweepGet(k) ==
    /\ sweep.pc = "s_next"
    /\ k \in sweep.keys
    /\ IF k \in DOMAIN kv /\ IsExpired(sweep.ts, kv[k].md)
         THEN sweep' = [pc |-> "s_rm", ts |-> sweep.ts, keys |-> sweep.keys \ {k},
                        key |-> k, md |-> kv[k].md]
         ELSE sweep' = [pc |-> "s_next", ts |-> sweep.ts, keys |-> sweep.keys \ {k}]
    /\ UNCHANGED <<now, kv, lock, dlock, disk, used, files, rowLock, task,
                   nextUpload, keks, kekCache, kekCall, booted, nextKey, wraps, accepted, pipe, front>>

\* the staged files the sweeper removes: indices 0 .. total_chunks - 1
SweepTargets(md) == {<<md.upload_session_id, i>> : i \in 0..(md.total_chunks - 1)}

SweepRemoveChunks ==
    /\ sweep.pc = "s_rm"
    /\ disk' = RemoveFiles(disk, SweepTargets(sweep.md))
    /\ sweep' = [sweep EXCEPT !.pc = "s_del"]
    /\ UNCHANGED <<now, kv, lock, dlock, used, files, rowLock, task,
                   nextUpload, keks, kekCache, kekCall, booted, nextKey, wraps, accepted, pipe, front>>

SweepDelSession ==
    /\ sweep.pc = "s_del"
    /\ kv' = Drop(kv, sweep.key)
    /\ sweep' = [sweep EXCEPT !.pc = "s_quota"]
    /\ UNCHANGED <<now, lock, dlock, disk, used, files, rowLock, task,
                   nextUpload, keks, kekCache, kekCall, booted, nextKey, wraps, accepted, pipe, front>>

\* UPDATE users SET storage_used_bytes = GREATEST(0, storage_used_bytes - total_size)
SweepQuota ==
    /\ sweep.pc = "s_quota"
    /\ rowLock[sweep.md.user_id] = "free"
    /\ used' = Release(sweep.md.user_id, sweep.md.total_size)
    /\ sweep' = [sweep EXCEPT !.pc = "s_lock"]
    /\ UNCHANGED <<now, kv, lock, dlock, disk, files, rowLock, task,
                   nextUpload, keks, kekCache, kekCall, booted, nextKey, wraps, accepted, pipe, front>>

SweepDelLock ==
    /\ sweep.pc = "s_lock"
    /\ lock' = Drop(lock, sweep.md.user_id)
    /\ sweep' = [pc |-> "s_next", ts |-> sweep.ts, keys |-> sweep.keys]
    /\ UNCHANGED <<now, kv, dlock, disk, used, files, rowLock, task,
                   nextUpload, keks, kekCache, kekCall, booted, nextKey, wraps, accepted, pipe, front>>

SweepEnd ==
    /\ sweep.pc = "s_next"
    /\ sweep.keys = {}
    /\ sweep' = SweepIdle
    /\ UNCHANGED <<now, kv, lock, dlock, disk, used, files, rowLock, task,
                   nextUpload, keks, kekCache, kekCall, booted, nextKey, wraps, accepted, pipe, front>>

cleanup_expired_uploads ==
    \/ \E k \in Users \X (1..nextUpload) : SweepGet(k)
    \/ SweepRemoveChunks
    \/ SweepDelSession
    \/ SweepQuota
    \/ SweepDelLock
    \/ SweepEnd


\* --------------------------------------------------------------- download_file
\* 200 in the source; six slots give the buffer sizes 3, 2 and 1
DOWNLOAD_BUFFER_SLOTS == 6

MaxPipeChunks == 3

\* max(1, total_slots / (concurrent_downloads.max(1) + 1))
BufferChunks(concurrent_downloads) ==
    Max(1, DOWNLOAD_BUFFER_SLOTS \div (Max(concurrent_downloads, 1) + 1))

\* one task of the stream: tokio::fs::read, then aes::decrypt under the file DEK
ChunkReadable(ci, dek) ==
    /\ ci.filename \in DOMAIN disk
    /\ DecryptOk(dek, disk[ci.filename], ci.nonce)

ChunkPlaintext(ci, dek) == Decrypt(dek, disk[ci.filename], ci.nonce)

\* what an in-order stream over the chunk table delivers before it ends or aborts
RECURSIVE StreamFrom(_, _, _)
StreamFrom(tab, dek, j) ==
    IF j > Len(tab) \/ ~ChunkReadable(tab[j], dek) THEN <<>>
    ELSE <<ChunkPlaintext(tab[j], dek)>> \o StreamFrom(tab, dek, j + 1)

StreamBody(tab, dek) == StreamFrom(tab, dek, 1)

\* EXISTS user_downloading:{user}
DownloadCheckLock(t, u, f) ==
    /\ Quiet(t)
    /\ IF u \in DOMAIN dlock
         THEN SetTask(t, Outcome("download", "Validation:download active"))
         ELSE SetTask(t, [op |-> "download", pc |-> "dl_set", res |-> "none", u |-> u,
                          file_id |-> f, body |-> <<>>])
    /\ UNCHANGED <<now, kv, lock, dlock, disk, used, files, rowLock, sweep,
                   nextUpload, keks, kekCache, kekCall, booted, nextKey, wraps, accepted, pipe, front>>

\* SET user_downloading:{user} with the 1-hour TTL; it is never deleted
DownloadSetLock(t) ==
    /\ At(t, "download", "dl_set")
    /\ dlock' = Put(dlock, task[t].u, now + DOWNLOAD_EXPIRATION_SECS)
    /\ Goto(t, "dl_file")
    /\ UNCHANGED <<now, kv, lock, disk, used, files, rowLock, sweep,
                   nextUpload, keks, kekCache, kekCall, booted, nextKey, wraps, accepted, pipe, front>>

\* SELECT ... WHERE id = $1 AND user_id = $2 AND is_deleted = false
DownloadFetch(t) ==
    /\ At(t, "download", "dl_file")
    /\ LET f == task[t].file_id IN
       IF f \notin DOMAIN files \/ files[f].user_id # task[t].u \/ files[f].is_deleted
         THEN Finish(t, "NotFound")
         ELSE Goto(t, "dl_kek")
    /\ UNCHANGED <<now, kv, lock, dlock, disk, used, files, rowLock, sweep,
                   nextUpload, keks, kekCache, kekCall, booted, nextKey, wraps, accepted, pipe, front>>

\* get_kek_by_version(file.dek_version), then the file's DEK is unwrapped
DownloadUnwrap(t) ==
    /\ At(t, "download", "dl_kek")
    /\ LET f == files[task[t].file_id]
           r == get_kek_by_version("A", f.dek_version)
       IN /\ keks' = r.keks
          /\ kekCache' = r.cache
          /\ nextKey' = r.nextKey
          /\ IF DecryptOk(r.keydata, f.encrypted_dek, f.nonce)
               THEN SetTask(t, [pc |-> "dl_stream",
                                dek |-> Decrypt(r.keydata, f.encrypted_dek, f.nonce)]
                               @@ task[t])
               ELSE Finish(t, "Encryption:dek")
    /\ UNCHANGED <<now, kv, lock, dlock, disk, used, files, rowLock, sweep,
                   nextUpload, kekCall, booted, wraps, accepted, pipe, front>>

\* a handler that gives the download lock back when its stream is built
DownloadStream_releasing(t) ==
    /\ At(t, "download", "dl_stream")
    /\ LET f == files[task[t].file_id]
           body == StreamBody(f.chunks_metadata, task[t].dek)
       IN SetTask(t, [op |-> "download", pc |-> "done",
                      res |-> IF Len(body) = Len(f.chunks_metadata)
                                THEN "OK" ELSE "Stream:aborted",
                      file_id |-> task[t].file_id, body |-> body])
    /\ dlock' = Drop(dlock, task[t].u)
    /\ UNCHANGED <<now, kv, lock, disk, used, files, rowLock, sweep,
                   nextUpload, keks, kekCache, kekCall, booted, nextKey, wraps, accepted, pipe, front>>

\* the body: the chunk plaintexts the stream emits, in the order it emits them
DownloadStream(t) ==
    /\ At(t, "download", "dl_stream")
    /\ LET f == files[task[t].file_id]
           body == StreamBody(f.chunks_metadata, task[t].dek)
       IN SetTask(t, [op |-> "download", pc |-> "done",
                      res |-> IF Len(body) = Len(f.chunks_metadata)
                                THEN "OK" ELSE "Stream:aborted",
                      file_id |-> task[t].file_id, body |-> body])
    /\ UNCHANGED <<now, kv, lock, dlock, disk, used, files, rowLock, sweep,
                   nextUpload, keks, kekCache, kekCall, booted, nextKey, wraps, accepted, pipe, front>>

\* download_file once the download lock was found free
download_file(t) ==
    \/ DownloadSetLock(t)
    \/ DownloadFetch(t)
    \/ DownloadUnwrap(t)
    \/ DownloadStream(t)


\* ------------------------------------------- the stream: .buffered(buffer_chunks)
PipeIdle == [status |-> "idle", max |-> 0, next |-> 0, queue |-> <<>>,
             out |-> <<>>, order |-> <<>>]

\* the file the stream serves and its DEK
PipeTable == files[1].chunks_metadata

PipeDek == Dek(files[1].user_id)

RemoveAt(q, pos) == [j \in 1..(Len(q) - 1) |-> IF j < pos THEN q[j] ELSE q[j + 1]]

\* a stream that yields whichever future in flight is ready (buffer_unordered)
Emittable_unordered(queue) == DOMAIN queue

\* Buffered yields the outputs in the order of the underlying stream: only the
\* oldest future in flight may deliver
Emittable(queue) == IF queue = <<>> THEN {} ELSE {1}

\* download_limiter.acquire(); buffer_chunks from the permits in use
PipeOpen(concurrent_downloads) ==
    /\ pipe.status = "idle"
    /\ pipe' = [PipeIdle EXCEPT !.status = "streaming",
                                !.max = BufferChunks(concurrent_downloads)]
    /\ UNCHANGED <<now, kv, lock, dlock, disk, used, files, rowLock, task, sweep,
                   nextUpload, keks, kekCache, kekCall, booted, nextKey, wraps, accepted, front>>

\* poll_next first fills the queue from stream::iter(chunks_data)
PipeSpawn ==
    /\ pipe.status = "streaming"
    /\ Len(pipe.queue) < pipe.max
    /\ pipe.next < Len(PipeTable)
    /\ pipe' = [pipe EXCEPT !.queue = Append(@, [idx |-> pipe.next, st |-> "running"]),
                            !.next = @ + 1]
    /\ UNCHANGED <<now, kv, lock, dlock, disk, used, files, rowLock, task, sweep,
                   nextUpload, keks, kekCache, kekCall, booted, nextKey, wraps, accepted, front>>

\* a read/decrypt task finishes; the tasks in flight finish in any order
PipeComplete(pos) ==
    /\ pipe.status = "streaming"
    /\ pos \in 1..Len(pipe.queue)
    /\ pipe.queue[pos].st = "running"
    /\ pipe' = [pipe EXCEPT !.queue[pos].st =
                    IF ChunkReadable(PipeTable[pipe.queue[pos].idx + 1], PipeDek)
                      THEN "ok" ELSE "err"]
    /\ UNCHANGED <<now, kv, lock, dlock, disk, used, files, rowLock, task, sweep,
                   nextUpload, keks, kekCache, kekCall, booted, nextKey, wraps, accepted, front>>

QueueFilled == Len(pipe.queue) = pipe.max \/ pipe.next = Len(PipeTable)

\* the stream yields Ok(bytes): the plaintext goes to the response body
PipeEmit(pos) ==
    /\ pipe.status = "streaming"
    /\ QueueFilled
    /\ pos \in Emittable(pipe.queue)
    /\ pipe.queue[pos].st = "ok"
    /\ pipe' = [pipe EXCEPT
                  !.queue = RemoveAt(@, pos),
                  !.out = Append(@, ChunkPlaintext(PipeTable[pipe.queue[pos].idx + 1], PipeDek)),
                  !.order = Append(@, pipe.queue[pos].idx)]
    /\ UNCHANGED <<now, kv, lock, dlock, disk, used, files, rowLock, task, sweep,
                   nextUpload, keks, kekCache, kekCall, booted, nextKey, wraps, accepted, front>>

\* a stream that drops a failed chunk and goes on with the next
PipeAbort_skipping(pos) ==
    /\ pipe.status = "streaming"
    /\ QueueFilled
    /\ pos \in Emittable(pipe.queue)
    /\ pipe.queue[pos].st = "err"
    /\ pipe' = [pipe EXCEPT !.queue = RemoveAt(@, pos)]
    /\ UNCHANGED <<now, kv, lock, dlock, disk, used, files, rowLock, task, sweep,
                   nextUpload, keks, kekCache, kekCall, booted, nextKey, wraps, accepted, front>>

\* the stream yields Err: the body ends there and the stream is dropped
PipeAbort(pos) ==
    /\ pipe.status = "streaming"
    /\ QueueFilled
    /\ pos \in Emittable(pipe.queue)
    /\ pipe.queue[pos].st = "err"
    /\ pipe' = [pipe EXCEPT !.status = "aborted", !.queue = <<>>]
    /\ UNCHANGED <<now, kv, lock, dlock, disk, used, files, rowLock, task, sweep,
                   nextUpload, keks, kekCache, kekCall, booted, nextKey, wraps, accepted, front>>

PipeClose ==
    /\ pipe.status = "streaming"
    /\ pipe.queue = <<>>
    /\ pipe.next = Len(PipeTable)
    /\ pipe' = [pipe EXCEPT !.status = "done"]
    /\ UNCHANGED <<now, kv, lock, dlock, disk, used, files, rowLock, task, sweep,
                   nextUpload, keks, kekCache, kekCall, booted, nextKey, wraps, accepted, front>>

chunk_stream ==
    \/ \E c \in 1..DOWNLOAD_BUFFER_SLOTS : PipeOpen(c)
    \/ PipeSpawn
    \/ \E pos \in 1..DOWNLOAD_BUFFER_SLOTS : PipeComplete(pos)
    \/ \E pos \in 1..DOWNLOAD_BUFFER_SLOTS : PipeEmit(pos)
    \/ \E pos \in 1..DOWNLOAD_BUFFER_SLOTS : PipeAbort(pos)
    \/ PipeClose


\* ------------------------------------------- the KEK registry, step by step
\* callers of the registry: the start-up path and the request handlers of two
\* server instances that share the keks table and keep a KekCache each
KekCallers == {"A1", "A2", "B1"}

InstOf(c) == IF c = "B1" THEN "B" ELSE "A"

MaxVersion == 2

NoCall == [fn |-> "none", pc |-> "idle", version |-> 0, keydata |-> KekKey(0),
           is_active |-> FALSE]

KekUnchanged == UNCHANGED <<now, kv, lock, dlock, disk, used, files, rowLock, task,
                            sweep, nextUpload, accepted, pipe, front>>

\* aes::generate_key
generate_key == KekKey(nextKey + 1)

\* main: ensure_kek_exists runs before the instance serves requests
EnsureStart(c) ==
    /\ c \in {"A1", "B1"}
    /\ ~booted[InstOf(c)]
    /\ kekCall[c].pc = "idle"
    /\ kekCall' = [kekCall EXCEPT ![c] = [NoCall EXCEPT !.fn = "ensure", !.pc = "e_select"]]
    /\ UNCHANGED <<keks, kekCache, booted, nextKey, wraps>>
    /\ KekUnchanged

\* SELECT version FROM keks WHERE version = 1 AND is_active AND NOT is_deprecated
EnsureSelect(c) ==
    /\ kekCall[c].pc = "e_select"
    /\ IF 1 \in ActiveVersions
         THEN /\ kekCall' = [kekCall EXCEPT ![c] = NoCall]
              /\ booted' = [booted EXCEPT ![InstOf(c)] = TRUE]
              /\ UNCHANGED nextKey
         ELSE /\ nextKey < MaxKeys
              /\ nextKey' = nextKey + 1
              /\ kekCall' = [kekCall EXCEPT ![c] =
                    [fn |-> "ensure", pc |-> "k_insert", version |-> 1,
                     keydata |-> generate_key, is_active |-> TRUE]]
              /\ UNCHANGED booted
    /\ UNCHANGED <<keks, kekCache, wraps>>
    /\ KekUnchanged

GetActiveStart(c) ==
    /\ booted[InstOf(c)]
    /\ kekCall[c].pc = "idle"
    /\ kekCall' = [kekCall EXCEPT ![c] = [NoCall EXCEPT !.fn = "active", !.pc = "a_select"]]
    /\ UNCHANGED <<keks, kekCache, booted, nextKey, wraps>>
    /\ KekUnchanged

\* the SELECT of get_active_kek: the active row, or none and a new key
GetActiveSelect(c) ==
    /\ kekCall[c].pc = "a_select"
    /\ IF ActiveRow # 0
         THEN /\ kekCall' = [kekCall EXCEPT ![c] =
                    [fn |-> "active", pc |-> "a_get", version |-> ActiveRow,
                     keydata |-> UnwrapRow(keks[ActiveRow]), is_active |-> TRUE]]
              /\ UNCHANGED nextKey
         ELSE /\ nextKey < MaxKeys
              /\ nextKey' = nextKey + 1
              /\ kekCall' = [kekCall EXCEPT ![c] =
                    [fn |-> "active", pc |-> "k_insert", version |-> 1,
                     keydata |-> generate_key, is_active |-> TRUE]]
    /\ UNCHANGED <<keks, kekCache, booted, wraps>>
    /\ KekUnchanged

\* kek_cache.get(r.version): a hit is returned, a miss unwraps the row read
GetActiveCacheGet(c) ==
    /\ kekCall[c].pc = "a_get"
    /\ IF kekCall[c].version \in DOMAIN kekCache[InstOf(c)]
         THEN kekCall' = [kekCall EXCEPT ![c].pc = "ret",
                             ![c].keydata = kekCache[InstOf(c)][kekCall[c].version]]
         ELSE kekCall' = [kekCall EXCEPT ![c].pc = "k_cache"]
    /\ UNCHANGED <<keks, kekCache, booted, nextKey, wraps>>
    /\ KekUnchanged

GetByVersionStart(c, version) ==
    /\ booted[InstOf(c)]
    /\ kekCall[c].pc = "idle"
    /\ kekCall' = [kekCall EXCEPT ![c] =
          [NoCall EXCEPT !.fn = "by_version", !.pc = "v_get", !.version = version]]
    /\ UNCHANGED <<keks, kekCache, booted, nextKey, wraps>>
    /\ KekUnchanged

\* kek_cache.get(version)
GetByVersionCacheGet(c) ==
    /\ kekCall[c].pc = "v_get"
    /\ IF kekCall[c].version \in DOMAIN kekCache[InstOf(c)]
         THEN kekCall' = [kekCall EXCEPT ![c].pc = "ret",
                             ![c].keydata = kekCache[InstOf(c)][kekCall[c].version]]
         ELSE kekCall' = [kekCall EXCEPT ![c].pc = "v_select"]
    /\ UNCHANGED <<keks, kekCache, booted, nextKey, wraps>>
    /\ KekUnchanged

\* a lookup that inserts the row of any missing version as the active one
GetByVersionSelect_activating(c) ==
    /\ kekCall[c].pc = "v_select"
    /\ IF kekCall[c].version \in DOMAIN keks
         THEN /\ kekCall' = [kekCall EXCEPT ![c].pc = "k_cache",
                                ![c].keydata = UnwrapRow(keks[kekCall[c].version])]
              /\ UNCHANGED nextKey
         ELSE /\ nextKey < MaxKeys
              /\ nextKey' = nextKey + 1
              /\ kekCall' = [kekCall EXCEPT ![c].pc = "k_insert",
                                ![c].keydata = generate_key,
                                ![c].is_active = TRUE]
    /\ UNCHANGED <<keks, kekCache, booted, wraps>>
    /\ KekUnchanged

\* SELECT ... WHERE version = $1: the row, or none and a new key
GetByVersionSelect(c) ==
    /\ kekCall[c].pc = "v_select"
    /\ IF kekCall[c].version \in DOMAIN keks
         THEN /\ kekCall' = [kekCall EXCEPT ![c].pc = "k_cache",
                                ![c].keydata = UnwrapRow(keks[kekCall[c].version])]
              /\ UNCHANGED nextKey
         ELSE /\ nextKey < MaxKeys
              /\ nextKey' = nextKey + 1
              /\ kekCall' = [kekCall EXCEPT ![c].pc = "k_insert",
                                ![c].keydata = generate_key,
                                ![c].is_active = (kekCall[c].version = 1)]
    /\ UNCHANGED <<keks, kekCache, booted, wraps>>
    /\ KekUnchanged

\* INSERT INTO keks ... ON CONFLICT (version) DO NOTHING, of a key just generated
KekInsert(c) ==
    /\ kekCall[c].pc = "k_insert"
    /\ keks' = InsertKek(keks, kekCall[c].version,
                         KekRow(kekCall[c].keydata, kekCall[c].is_active))
    /\ kekCall' = [kekCall EXCEPT ![c].pc = "k_cache"]
    /\ UNCHANGED <<kekCache, booted, nextKey, wraps>>
    /\ KekUnchanged

\* kek_cache.insert(version, keydata), and the function returns
KekCachePut(c) ==
    /\ kekCall[c].pc = "k_cache"
    /\ kekCache' = CacheInsert(kekCache, InstOf(c), kekCall[c].version, kekCall[c].keydata)
    /\ IF kekCall[c].fn = "ensure"
         THEN /\ booted' = [booted EXCEPT ![InstOf(c)] = TRUE]
              /\ kekCall' = [kekCall EXCEPT ![c] = NoCall]
         ELSE /\ UNCHANGED booted
              /\ kekCall' = [kekCall EXCEPT ![c].pc = "ret"]
    /\ UNCHANGED <<keks, nextKey, wraps>>
    /\ KekUnchanged

\* the caller takes the key: finalize wraps the DEK under it and stores the
\* version with the file; download unwraps the file's DEK with it
KekReturn(c) ==
    /\ kekCall[c].pc = "ret"
    /\ wraps' = IF kekCall[c].fn = "active"
                  THEN wraps \cup {[dek_version |-> kekCall[c].version,
                                    keydata |-> kekCall[c].keydata]}
                  ELSE wraps
    /\ kekCall' = [kekCall EXCEPT ![c] = NoCall]
    /\ UNCHANGED <<keks, kekCache, booted, nextKey>>
    /\ KekUnchanged

\* the process restarts: KekCache::new(), then start-up again
Restart(inst) ==
    /\ booted[inst]
    /\ \A c \in KekCallers : InstOf(c) = inst => kekCall[c].pc = "idle"
    /\ booted' = [booted EXCEPT ![inst] = FALSE]
    /\ kekCache' = [kekCache EXCEPT ![inst] = <<>>]
    /\ UNCHANGED <<keks, kekCall, nextKey, wraps>>
    /\ KekUnchanged

kek_registry(c) ==
    \/ EnsureStart(c)
    \/ EnsureSelect(c)
    \/ GetActiveStart(c)
    \/ GetActiveSelect(c)
    \/ GetActiveCacheGet(c)
    \/ \E v \in 1..MaxVersion : GetByVersionStart(c, v)
    \/ GetByVersionCacheGet(c)
    \/ GetByVersionSelect(c)
    \/ KekInsert(c)
    \/ KekCachePut(c)
    \/ KekReturn(c)


\* ------------------------------------------------ services::save_file_metadata
\* the service-layer path that records a file: the debit is committed first,
\* the KEK lookup and the INSERT follow on the pool.
\* BEGIN; SELECT ... FOR UPDATE; the admission test; UPDATE users; COMMIT
SaveQuota(t, u, file_size) ==
    /\ Quiet(t)
    /\ rowLock[u] = "free"
    /\ LET r == [op |-> "save", u |-> u, id |-> 0, file_size |-> file_size] @@ Snap(u)
       IN IF file_size > storage_quota_bytes[u] - used[u]
            THEN /\ SetTask(t, Closed(r, "Validation:quota"))
                 /\ UNCHANGED used
            ELSE /\ used' = [used EXCEPT ![u] = @ + file_size]
                 /\ SetTask(t, [pc |-> "sv_kek", res |-> "none"] @@ r)
    /\ UNCHANGED <<now, kv, lock, dlock, disk, files, rowLock, sweep,
                   nextUpload, keks, kekCache, kekCall, booted, nextKey, wraps, accepted, pipe, front>>

\* get_active_kek(...)?, then aes::encrypt(kek, user_dek)
SaveKek(t, db_error) ==
    /\ At(t, "save", "sv_kek")
    /\ IF db_error
         THEN /\ SetTask(t, Closed(task[t], "Database:kek"))
              /\ UNCHANGED <<keks, kekCache, nextKey>>
         ELSE LET r == get_active_kek("A")
                  n == generate_nonce
              IN /\ keks' = r.keks
                 /\ kekCache' = r.cache
                 /\ nextKey' = r.nextKey
                 /\ SetTask(t, [pc |-> "sv_insert", nonce |-> n, dek_version |-> r.version,
                                encrypted_dek |-> Encrypt(r.keydata, Dek(task[t].u), n)]
                               @@ task[t])
    /\ UNCHANGED <<now, kv, lock, dlock, disk, used, files, rowLock, sweep,
                   nextUpload, kekCall, booted, wraps, accepted, pipe, front>>

\* file_repo::create_file(...)?
SaveCreate(t, db_error) ==
    /\ At(t, "save", "sv_insert")
    /\ IF db_error
         THEN /\ SetTask(t, Closed(task[t], "Database:insert"))
              /\ UNCHANGED files
         ELSE /\ files' = Append(files,
                    [user_id |-> task[t].u, total_chunks |-> 0, chunks_metadata |-> <<>>,
                     encrypted_dek |-> task[t].encrypted_dek, nonce |-> task[t].nonce,
                     dek_version |-> task[t].dek_version, file_size |-> task[t].file_size,
                     upload_status |-> "completed", is_deleted |-> FALSE])
              /\ SetTask(t, Closed(task[t], "OK"))
    /\ UNCHANGED <<now, kv, lock, dlock, disk, used, rowLock, sweep,
                   nextUpload, keks, kekCache, kekCall, booted, nextKey, wraps, accepted, pipe, front>>

\* save_file_metadata once the debit is committed
save_file_metadata(t) ==
    \/ \E db_error \in BOOLEAN : SaveKek(t, db_error)
    \/ \E db_error \in BOOLEAN : SaveCreate(t, db_error)

\* the response leaves the server and the handler's frame is dropped
Return(t) ==
    /\ task[t].pc = "done"
    /\ task[t] # Idle
    /\ SetTask(t, Idle)
    /\ UNCHANGED <<now, kv, lock, dlock, disk, used, files, rowLock, sweep,
                   nextUpload, keks, kekCache, kekCall, booted, nextKey, wraps, accepted, pipe, front>>

\* ------------------------------------------------- the router and its layers
MaxSessions == 1

\* session_duration_days (7 by default) is two ticks; the CSRF token's 3600 s
\* are rounded up to one
session_duration_days == 2
CSRF_TOKEN_TTL == 1

Clients == {"r1", "r2"}

\* the values a request may carry as a cookie or header: none (0), the ids
\* and tokens that logins hand out, and one that no login handed out
Offered == 0..(MaxSessions + 1)

\* csrf_token cookie and x-csrf-token header of a request: neither, the cookie
\* alone, the same value in both, or two different values
CsrfPairs ==
    {<<0, 0>>}
    \cup UNION {{<<c, 0>>, <<c, c>>} : c \in Offered \ {0}}
    \cup {<<c, c + 1>> : c \in 1..MaxSessions}

login_routes == {"auth/login"}

init_routes == {"files/upload/init", "files/upload/chunk", "files/upload/finalize",
                "files/upload/cancel", "files/recalculate-quota"}

protected_routes == {"auth/logout", "files/download", "files/delete"}

Endpoints == login_routes \cup init_routes \cup protected_routes

\* get(download_file), delete(delete_file), post(...) for the rest
MethodOf(e) ==
    IF e = "files/download" THEN "GET"
    ELSE IF e = "files/delete" THEN "DELETE"
    ELSE "POST"

\* the middleware of a route, outermost first: the route_layer added last runs
\* first
Layers(e) ==
    IF e \in init_routes THEN <<"require_auth">>
    ELSE IF e \in protected_routes THEN <<"require_auth", "verify_csrf">>
    ELSE <<>>

\* a request: its route, its cookies (0: none), its x-csrf-token header
\* (0: none), the layer it is at, and the Session extension it carries (0: none)
NoRequest == [endpoint |-> "none", pc |-> "idle", session_id |-> 0, csrf_cookie |-> 0,
              csrf_header |-> 0, layer |-> 0, ext |-> 0, status |-> 0]

SetReq(r, v) == req' = [req EXCEPT ![r] = v]

\* the response; the request's cookies and headers are gone with it
Respond(r, code) ==
    SetReq(r, [NoRequest EXCEPT !.pc = "responded", !.session_id = req[r].session_id,
                                !.status = code])

\* next.run(request): the next layer of the route, or its handler
Forward(r, v) ==
    LET ls == Layers(v.endpoint) IN
    SetReq(r, IF v.layer < Len(ls)
                THEN [v EXCEPT !.layer = @ + 1, !.pc = ls[v.layer + 1]]
                ELSE [v EXCEPT !.layer = 0, !.pc = "handler"])

\* the router takes a request in
Route(r, e, sid, cookie, header) ==
    /\ req[r].pc \in {"idle", "responded"}
    /\ Forward(r, [NoRequest EXCEPT !.endpoint = e, !.session_id = sid,
                                    !.csrf_cookie = cookie, !.csrf_header = header])
    /\ UNCHANGED <<core, storage_quota_bytes, credentials, folders, sessions, csrf, ended, nextSession, upload_limiter, chunk_req,
                   download_limiter, download_req>>

\* the test require_auth makes on the session record it read
SessionExpired_unchecked(session) == FALSE

SessionExpired(session) == now > session.expires_at

\* middleware_layer::auth::require_auth
require_auth(r) ==
    /\ req[r].pc = "require_auth"
    /\ LET sid == req[r].session_id IN
       IF sid = 0 \/ sid \notin DOMAIN sessions
         THEN /\ Respond(r, 403)
              /\ UNCHANGED sessions
       ELSE IF SessionExpired(sessions[sid])
         THEN /\ sessions' = Drop(sessions, sid)
              /\ Respond(r, 403)
         ELSE /\ Forward(r, [req[r] EXCEPT !.ext = sid])
              /\ UNCHANGED sessions
    /\ UNCHANGED <<core, storage_quota_bytes, credentials, folders, csrf, ended, nextSession, upload_limiter, chunk_req,
                   download_limiter, download_req>>

\* middleware_layer::csrf::verify_csrf
verify_csrf(r) ==
    /\ req[r].pc = "verify_csrf"
    /\ IF MethodOf(req[r].endpoint) \in {"GET", "HEAD", "OPTIONS"}
         THEN Forward(r, req[r])
       ELSE IF req[r].csrf_cookie = 0 \/ req[r].csrf_header = 0
         THEN Respond(r, 401)
       ELSE IF req[r].csrf_cookie # req[r].csrf_header
         THEN Respond(r, 401)
       ELSE IF req[r].csrf_cookie \notin DOMAIN csrf
         THEN Respond(r, 401)
         ELSE Forward(r, req[r])
    /\ UNCHANGED <<core, storage_quota_bytes, credentials, folders, sessions, csrf, ended, nextSession, upload_limiter, chunk_req,
                   download_limiter, download_req>>

\* login: authenticate_user, then the Session is built around a new session id
LoginBuild(r, password_ok) ==
    /\ req[r].pc = "handler"
    /\ req[r].endpoint = "auth/login"
    /\ IF password_ok /\ nextSession < MaxSessions
         THEN /\ nextSession' = nextSession + 1
              /\ SetReq(r, [req[r] EXCEPT !.pc = "set_session",
                                          !.session_id = nextSession + 1,
                                          !.ext = now + session_duration_days])
         ELSE /\ Respond(r, 401)
              /\ UNCHANGED nextSession
    /\ UNCHANGED <<core, storage_quota_bytes, credentials, folders, sessions, csrf, ended, upload_limiter, chunk_req,
                   download_limiter, download_req>>

\* SET session:{id} with the TTL of session_duration_days
LoginSetSession(r) ==
    /\ req[r].pc = "set_session"
    /\ sessions' = Put(sessions, req[r].session_id,
                       [user_id |-> "u1", expires_at |-> req[r].ext,
                        exp |-> now + session_duration_days])
    /\ SetReq(r, [req[r] EXCEPT !.pc = "set_csrf"])
    /\ UNCHANGED <<core, storage_quota_bytes, credentials, folders, csrf, ended, nextSession, upload_limiter, chunk_req,
                   download_limiter, download_req>>

\* generate_csrf_token, SET csrf:{token} for 3600 s; both cookies go out
LoginSetCsrf(r) ==
    /\ req[r].pc = "set_csrf"
    /\ csrf' = Put(csrf, req[r].session_id, now + CSRF_TOKEN_TTL)
    /\ Respond(r, 200)
    /\ UNCHANGED <<core, storage_quota_bytes, credentials, folders, sessions, ended, nextSession, upload_limiter, chunk_req,
                   download_limiter, download_req>>

login(r) ==
    \/ \E password_ok \in BOOLEAN : LoginBuild(r, password_ok)
    \/ LoginSetSession(r)
    \/ LoginSetCsrf(r)

\* logout: DEL session:{id} of the session_id cookie
LogoutDelSession(r) ==
    /\ req[r].pc = "handler"
    /\ req[r].endpoint = "auth/logout"
    /\ sessions' = Drop(sessions, req[r].session_id)
    /\ ended' = ended \cup {req[r].session_id}
    /\ SetReq(r, [req[r] EXCEPT !.pc = "del_csrf"])
    /\ UNCHANGED <<core, storage_quota_bytes, credentials, folders, csrf, nextSession, upload_limiter, chunk_req,
                   download_limiter, download_req>>

\* logout: DEL csrf:{token} of the csrf_token cookie, if the request has one
LogoutDelCsrf(r) ==
    /\ req[r].pc = "del_csrf"
    /\ csrf' = IF req[r].csrf_cookie # 0 THEN Drop(csrf, req[r].csrf_cookie) ELSE csrf
    /\ Respond(r, 200)
    /\ UNCHANGED <<core, storage_quota_bytes, credentials, folders, sessions, ended, nextSession, upload_limiter, chunk_req,
                   download_limiter, download_req>>

logout(r) ==
    \/ LogoutDelSession(r)
    \/ LogoutDelCsrf(r)

\* the handlers of the file routes run with the Session extension
Handle(r) ==
    /\ req[r].pc = "handler"
    /\ req[r].endpoint \notin {"auth/login", "auth/logout"}
    /\ Respond(r, 200)
    /\ UNCHANGED <<core, storage_quota_bytes, credentials, folders, sessions, csrf, ended, nextSession, upload_limiter, chunk_req,
                   download_limiter, download_req>>

\* the keys of the two stores reach their TTL
ExpireSession(sid) ==
    /\ sid \in DOMAIN sessions
    /\ sessions[sid].exp <= now
    /\ sessions' = Drop(sessions, sid)
    /\ UNCHANGED <<core, storage_quota_bytes, credentials, folders, csrf, req, ended, nextSession, upload_limiter, chunk_req,
                   download_limiter, download_req>>

ExpireCsrf(token) ==
    /\ token \in DOMAIN csrf
    /\ csrf[token] <= now
    /\ csrf' = Drop(csrf, token)
    /\ UNCHANGED <<core, storage_quota_bytes, credentials, folders, sessions, req, ended, nextSession, upload_limiter, chunk_req,
                   download_limiter, download_req>>

\* time passes once every key that is due is gone
RouterTick ==
    /\ \A sid \in DOMAIN sessions : sessions[sid].exp > now
    /\ \A token \in DOMAIN csrf : csrf[token] > now
    /\ Tick

\* --------------------------------------- the buffer-slot semaphores (state.rs)
\* 200 in the source; two slots and three concurrent calls make a call wait
UPLOAD_BUFFER_SLOTS == 2

MaxChunkCalls == 3

ChunkCalls == 1..MaxChunkCalls

\* one more concurrent download than there are slots
DownloadCalls == 1..(DOWNLOAD_BUFFER_SLOTS + 1)

\* a call of a handler: where it is, and whether its _permit local is alive
NoCallYet == [pc |-> "idle", permit |-> FALSE, res |-> "none"]

\* Drop of the SemaphorePermit that a call holds: the permit goes back
ReleaseUpload_leaked(call) == upload_limiter

ReleaseUpload(call) == IF call.permit THEN upload_limiter + 1 ELSE upload_limiter

\* the response of upload_chunk; _permit goes out of scope with the frame
ChunkExit(c, result) ==
    /\ upload_limiter' = ReleaseUpload(chunk_req[c])
    /\ chunk_req' = [chunk_req EXCEPT ![c] = [pc |-> "idle", permit |-> FALSE,
                                               res |-> result]]

\* the request reaches upload_chunk; its body has not been read
ChunkEnter(c) ==
    /\ chunk_req[c].pc = "idle"
    /\ chunk_req' = [chunk_req EXCEPT ![c] = [pc |-> "acquire", permit |-> FALSE,
                                               res |-> "none"]]
    /\ UNCHANGED <<core, storage_quota_bytes, credentials, folders, sessions, csrf, req, ended, nextSession, upload_limiter,
                   download_limiter, download_req>>

\* let _permit = state.upload_limiter.acquire().await
ChunkAcquire(c) ==
    /\ chunk_req[c].pc = "acquire"
    /\ upload_limiter > 0
    /\ upload_limiter' = upload_limiter - 1
    /\ chunk_req' = [chunk_req EXCEPT ![c] = [@ EXCEPT !.pc = "read", !.permit = TRUE]]
    /\ UNCHANGED <<core, storage_quota_bytes, credentials, folders, sessions, csrf, req, ended, nextSession,
                   download_limiter, download_req>>

\* the multipart loop: the fields are read, or it ends in a parse error, a
\* timeout or a missing field
ChunkRead(c, result) ==
    /\ chunk_req[c].pc = "read"
    /\ IF result = "OK"
         THEN /\ chunk_req' = [chunk_req EXCEPT ![c] = [@ EXCEPT !.pc = "store"]]
              /\ UNCHANGED upload_limiter
         ELSE ChunkExit(c, result)
    /\ UNCHANGED <<core, storage_quota_bytes, credentials, folders, sessions, csrf, req, ended, nextSession,
                   download_limiter, download_req>>

\* the rest of the handler, holding the chunk: session checks, encryption,
\* the write and the session update, each of which may fail
ChunkStore(c, result) ==
    /\ chunk_req[c].pc = "store"
    /\ ChunkExit(c, result)
    /\ UNCHANGED <<core, storage_quota_bytes, credentials, folders, sessions, csrf, req, ended, nextSession,
                   download_limiter, download_req>>

\* the client goes away: the handler's future is dropped where it stands
ChunkDropped(c) ==
    /\ chunk_req[c].pc \in {"acquire", "read", "store"}
    /\ ChunkExit(c, "dropped")
    /\ UNCHANGED <<core, storage_quota_bytes, credentials, folders, sessions, csrf, req, ended, nextSession,
                   download_limiter, download_req>>

chunk_calls ==
    \E c \in ChunkCalls :
        \/ ChunkEnter(c)
        \/ ChunkAcquire(c)
        \/ \E result \in {"OK", "Multipart", "Validation"} : ChunkRead(c, result)
        \/ \E result \in {"OK", "Validation", "Internal"} : ChunkStore(c, result)
        \/ ChunkDropped(c)

\* download_file is called (by users whose download lock is free)
DownloadEnter(d) ==
    /\ download_req[d].pc = "idle"
    /\ download_req' = [download_req EXCEPT ![d] = [pc |-> "acquire", permit |-> FALSE,
                                                     res |-> "none"]]
    /\ UNCHANGED <<core, storage_quota_bytes, credentials, folders, sessions, csrf, req, ended, nextSession, upload_limiter,
                   chunk_req, download_limiter>>

\* let _permit = state.download_limiter.acquire().await
DownloadAcquire(d) ==
    /\ download_req[d].pc = "acquire"
    /\ download_limiter > 0
    /\ download_limiter' = download_limiter - 1
    /\ download_req' = [download_req EXCEPT ![d] = [@ EXCEPT !.pc = "prepare",
                                                             !.permit = TRUE]]
    /\ UNCHANGED <<core, storage_quota_bytes, credentials, folders, sessions, csrf, req, ended, nextSession, upload_limiter,
                   chunk_req>>

\* the handler returns: an error, or Ok((response_headers, body)) with the
\* stream inside the body.  _permit is a local of the handler and is dropped
\* with its frame; the body is polled after the return.
DownloadReturn(d, result) ==
    /\ download_req[d].pc = "prepare"
    /\ download_limiter' = download_limiter + 1
    /\ download_req' = [download_req EXCEPT ![d] =
                          [pc |-> IF result = "OK" THEN "streaming" ELSE "idle",
                           permit |-> FALSE, res |-> "none"]]
    /\ UNCHANGED <<core, storage_quota_bytes, credentials, folders, sessions, csrf, req, ended, nextSession, upload_limiter,
                   chunk_req>>

\* the body's stream ends: every chunk was sent, or a chunk failed
DownloadStreamEnd(d) ==
    /\ download_req[d].pc = "streaming"
    /\ download_req' = [download_req EXCEPT ![d] = NoCallYet]
    /\ UNCHANGED <<core, storage_quota_bytes, credentials, folders, sessions, csrf, req, ended, nextSession, upload_limiter,
                   chunk_req, download_limiter>>

download_calls ==
    \E d \in DownloadCalls :
        \/ DownloadEnter(d)
        \/ DownloadAcquire(d)
        \/ \E result \in {"OK", "NotFound"} : DownloadReturn(d, result)
        \/ DownloadStreamEnd(d)

\* ------------------------------------------------------------ specifications
EmptyMap == <<>>

\* the parts of the state every deployment starts with
InitCommon ==
    /\ now = 0
    /\ kv = EmptyMap
    /\ lock = EmptyMap
    /\ dlock = EmptyMap
    /\ used = [u \in Accounts |-> 0]
    /\ rowLock = [u \in Accounts |-> "free"]
    /\ task = [t \in Tasks |-> Idle]
    /\ sweep = SweepIdle
    /\ nextUpload = 0
    /\ kekCall = [c \in KekCallers |-> NoCall]
    /\ wraps = {}
    /\ accepted = EmptyMap
    /\ pipe = PipeIdle
    /\ sessions = EmptyMap
    /\ csrf = EmptyMap
    /\ req = [r \in Clients |-> NoRequest]
    /\ ended = {}
    /\ nextSession = 0
    /\ upload_limiter = UPLOAD_BUFFER_SLOTS
    /\ chunk_req = [c \in ChunkCalls |-> NoCallYet]
    /\ download_limiter = DOWNLOAD_BUFFER_SLOTS
    /\ download_req = [d \in DownloadCalls |-> NoCallYet]
    /\ credentials = [u \in Accounts |-> create_user(u, "p1", 1, 1, 1)]
    /\ folders = [d \in FolderIds |->
                     [user_id |-> "u1",
                      parent_folder_id |-> IF d = "d2" THEN "d1" ELSE NoFolder,
                      is_deleted |-> FALSE]]

\* instance A has started: ensure_kek_exists has created and cached KEK 1
InitServing ==
    /\ keks = (1 :> KekRow(KekKey(1), TRUE))
    /\ kekCache = [i \in Instances |-> IF i = "A" THEN (1 :> KekKey(1)) ELSE EmptyMap]
    /\ booted = [i \in Instances |-> i = "A"]
    /\ nextKey = 1

Init ==
    /\ InitCommon
    /\ InitServing
    /\ storage_quota_bytes = [u \in Accounts |-> Quota]
    /\ disk = EmptyMap
    /\ files = <<>>

\* ---- the upload protocol, one request at a time, no key reaching its TTL
SeqTask == "t1"

MayUpload(u, id, idx) ==
    <<u, id>> \in DOMAIN kv => kv[<<u, id>>].md.chunks_received_count <= MaxChunks

Requests(t) ==
    \/ \E u \in Users, s \in FileSizes, n \in 0..MaxChunks :
          nextUpload < MaxUploads /\ InitUploadCheckLock(t, u, s, n)
    \/ \E u \in Users, id \in 1..nextUpload, idx \in ChunkIdx, d \in Data :
          MayUpload(u, id, idx) /\ UploadChunkLoad(t, u, id, idx, d)
    \/ \E u \in Users, id \in 1..nextUpload :
          Len(files) < MaxFiles /\ FinalizeLoad(t, u, id)
    \/ \E u \in Users, id \in 1..nextUpload : CancelLoad(t, u, id)
    \/ \E u \in Users, f \in 1..MaxFiles : DeleteRead(t, u, f)
    \/ \E u \in Users : RecalculateSum(t, u)
    \/ \E u \in Users, f \in 1..MaxFiles : DownloadCheckLock(t, u, f)

Steps(t) ==
    \/ init_upload(t)
    \/ upload_chunk(t)
    \/ finalize_upload(t)
    \/ cleanup_failed_upload(t)
    \/ DeleteCommit(t)
    \/ RecalculateCommit(t)
    \/ download_file(t)
    \/ Return(t)

Next ==
    \/ Requests(SeqTask)
    \/ Steps(SeqTask)

Spec == Init /\ [][Next]_vars


\* ---- the ledger over time: one request at a time, the hourly sweeper between
\* requests, keys reaching their TTL; the client uploads single-chunk files of
\* one plaintext and sends the chunk of a session once
Calm == Quiet(SeqTask) /\ sweep.pc = "s_idle"

NotYetSent(id) == id \in DOMAIN accepted /\ accepted[id][0].n = 0

SweptRequests(t) ==
    \/ \E u \in Users, s \in 1..Quota :
          /\ sweep.pc = "s_idle"
          /\ nextUpload < MaxSweptUploads
          /\ InitUploadCheckLock(t, u, s, 1)
    \/ \E u \in Users, id \in 1..nextUpload :
          /\ sweep.pc = "s_idle"
          /\ NotYetSent(id)
          /\ UploadChunkLoad(t, u, id, 0, "a")
    \/ \E u \in Users, id \in 1..nextUpload :
          /\ sweep.pc = "s_idle"
          /\ Len(files) < MaxFiles
          /\ FinalizeLoad(t, u, id)
    \/ \E u \in Users, id \in 1..nextUpload :
          /\ sweep.pc = "s_idle"
          /\ CancelLoad(t, u, id)
    \/ \E u \in Users, f \in 1..MaxFiles :
          /\ sweep.pc = "s_idle"
          /\ DeleteRead(t, u, f)
    \/ \E u \in Users :
          /\ sweep.pc = "s_idle"
          /\ RecalculateSum(t, u)
    \/ \E u \in Users, f \in 1..MaxFiles :
          /\ sweep.pc = "s_idle"
          /\ DownloadCheckLock(t, u, f)

SweptSteps(t) ==
    \/ init_upload(t)
    \/ upload_chunk(t)
    \/ finalize_upload(t)
    \/ cleanup_failed_upload(t)
    \/ DeleteCommit(t)
    \/ RecalculateCommit(t)
    \/ download_file(t)
    \/ Return(t)

Clock ==
    \/ Calm /\ Tick
    \/ \E k \in Users \X (1..nextUpload) : Calm /\ ExpireUpload(k)
    \/ \E u \in Users : Calm /\ ExpireLock(u)
    \/ \E u \in Users : Calm /\ ExpireDownloadLock(u)

NextSwept ==
    \/ SweptRequests(SeqTask)
    \/ SweptSteps(SeqTask)
    \/ Quiet(SeqTask) /\ SweepStart
    \/ cleanup_expired_uploads
    \/ Clock

SpecSwept == Init /\ [][NextSwept]_vars

\* C2: for every user, 0 <= used_bytes <= quota_bytes in every reachable state.
C2_UsedWithinQuota ==
    \A u \in Users : 0 <= used[u] /\ used[u] <= Quota

\* ---- two init requests in flight at once
NextRace ==
    \/ \E t \in Tasks, u \in Users, s \in FileSizes, n \in 0..MaxChunks :
          nextUpload < MaxUploads /\ InitUploadCheckLock(t, u, s, n)
    \/ \E t \in Tasks : init_upload(t)
    \/ \E t \in Tasks : Return(t)

SpecRace == Init /\ [][NextRace]_vars

\* C1: at most one UploadSession record exists for a user in every reachable
\* state, concurrent init requests of that user included.
C1_OneSessionPerUser ==
    \A u \in Users : Cardinality({k \in DOMAIN kv : k[1] = u}) <= 1

\* ---- the KEK registry under its callers: two instances on one keks table,
\* from a fresh deployment (no KEK yet, nothing cached)
InitKek ==
    /\ InitCommon
    /\ storage_quota_bytes = [u \in Accounts |-> Quota]
    /\ keks = EmptyMap
    /\ kekCache = [i \in Instances |-> EmptyMap]
    /\ booted = [i \in Instances |-> FALSE]
    /\ nextKey = 0
    /\ disk = EmptyMap
    /\ files = <<>>

NextKek ==
    \/ \E c \in KekCallers : kek_registry(c)
    \/ \E inst \in Instances : Restart(inst)

SpecKek == InitKek /\ [][NextKek]_vars

\* C5: the key a DEK was wrapped under at finalize is the key persisted in the
\* keks row of the version stored with the file, so that unwrapping through the
\* row alone gives the DEK back.
C5_WrappedUnderStoredKey ==
    \A w \in wraps :
        /\ w.dek_version \in DOMAIN keks
        /\ UnwrapRow(keks[w.dek_version]) = w.keydata

\* C6: if a cache holds a key for version v then a keks row for v exists and
\* the cached key is the key wrapped in that row.
C6_CacheCoherent ==
    \A inst \in Instances :
        \A v \in DOMAIN kekCache[inst] :
            /\ v \in DOMAIN keks
            /\ kekCache[inst][v] = UnwrapRow(keks[v])

\* ---- the download stream of one committed file
\* the file: n chunks, of which those in `missing` are not on disk
StoredFile(n) ==
    [user_id |-> "u1", total_chunks |-> n,
     chunks_metadata |-> BuildChunkTable(1, [i \in 0..(n - 1) |-> i + 2]),
     encrypted_dek |-> Encrypt(KekKey(1), Dek("u1"), 1), nonce |-> 1,
     dek_version |-> 1, file_size |-> 1, upload_status |-> "completed",
     is_deleted |-> FALSE]

StagedChunks(n, missing) ==
    [c \in {<<1, i>> : i \in (0..(n - 1)) \ missing} |->
        Encrypt(Dek("u1"), IF c[2] % 2 = 0 THEN "a" ELSE "b", c[2] + 2)]

InitDownload ==
    /\ InitCommon
    /\ InitServing
    /\ storage_quota_bytes = [u \in Accounts |-> Quota]
    /\ \E n \in 1..MaxPipeChunks, missing \in SUBSET (0..(MaxPipeChunks - 1)) :
          /\ missing \subseteq 0..(n - 1)
          /\ Cardinality(missing) <= 1
          /\ files = <<StoredFile(n)>>
          /\ disk = StagedChunks(n, missing)

NextDownload == chunk_stream

SpecDownload == InitDownload /\ [][NextDownload]_vars

\* C9: the stream emits the chunk plaintexts strictly in chunk-table order,
\* each at most once, for every buffer size and every order in which the
\* read/decrypt tasks complete: the k-th emission is chunk k - 1, and what has
\* been emitted is the plaintexts of the table's first chunks.
C9_EmittedInTableOrder ==
    /\ \A j \in DOMAIN pipe.order : pipe.order[j] = j - 1
    /\ Len(pipe.out) = Len(pipe.order)
    /\ \A j \in DOMAIN pipe.out : pipe.out[j] = ChunkPlaintext(PipeTable[j], PipeDek)

\* with more than one task in flight, a later chunk's task has completed while
\* the oldest one is still running, and a chunk has been emitted already
C9_Witness ==
    /\ pipe.max >= 2
    /\ Len(pipe.order) >= 1
    /\ Len(pipe.queue) >= 2
    /\ pipe.queue[1].st = "running"
    /\ pipe.queue[2].st = "ok"

\* ---- the two paths that record a file: finalize_upload and the service's
\* save_file_metadata, one request at a time, single-chunk uploads
ServiceRequests(t) ==
    \/ \E u \in Users, s \in 1..MAX_FILE_SIZE :
          nextUpload < MaxUploads /\ InitUploadCheckLock(t, u, s, 1)
    \/ \E u \in Users, id \in 1..nextUpload :
          NotYetSent(id) /\ UploadChunkLoad(t, u, id, 0, "a")
    \/ \E u \in Users, id \in 1..nextUpload :
          Len(files) < MaxFiles /\ FinalizeLoad(t, u, id)
    \/ \E u \in Users, s \in 1..MAX_FILE_SIZE :
          Len(files) < MaxFiles /\ SaveQuota(t, u, s)

ServiceSteps(t) ==
    \/ init_upload(t)
    \/ upload_chunk(t)
    \/ finalize_upload(t)
    \/ cleanup_failed_upload(t)
    \/ save_file_metadata(t)
    \/ Return(t)

NextService ==
    \/ ServiceRequests(SeqTask)
    \/ ServiceSteps(SeqTask)

SpecService == Init /\ [][NextService]_vars

\* C3: a File record and its quota debit become visible together (what is
\* debited is what the files on record add up to, in every state), and a
\* request that records a file and answers with an error has added no File
\* record and left used_bytes as it was; this on every path that saves a file.
C3_DebitWithFile ==
    /\ \A u \in Users : used[u] = SumSizes(LiveFiles(u))
    /\ \A t \in Tasks :
          (task[t].op \in {"finalize", "save"} /\ task[t].pc = "done"
              /\ task[t].res # "OK") =>
              /\ Len(files) = task[t].nfiles0
              /\ used[task[t].u] = task[t].used0

\* ------------------------------------------------ properties of the protocol
\* the upload session a committed file came from, read off its chunk filenames
UploadOf(f) == files[f].chunks_metadata[1].filename[1]

\* every index of the upload behind file f was accepted exactly once
SentExactlyOnce(f) ==
    \A i \in DOMAIN accepted[UploadOf(f)] : accepted[UploadOf(f)][i].n = 1

\* the plaintexts accepted for the upload behind file f, by ascending index
Concatenation(f) ==
    [j \in 1..files[f].total_chunks |-> accepted[UploadOf(f)][j - 1].d]

\* C4: for every non-deleted File record and every index i below total_chunks,
\* the staged chunk named by the chunk table's entry i is on disk and opens
\* under the file's DEK with the nonce stored in that entry.
C4_CommittedChunksOnDisk ==
    \A f \in DOMAIN files :
        ~files[f].is_deleted =>
            \A j \in 1..files[f].total_chunks :
                ChunkReadable(files[f].chunks_metadata[j], Dek(files[f].user_id))

\* C7: for every UploadSession record, 0 <= chunks_received <= total_chunks,
\* whatever chunk uploads the session has seen (repeats of an index included).
C7_ChunksReceivedBounded ==
    \A k \in DOMAIN kv :
        /\ 0 <= kv[k].md.chunks_received_count
        /\ kv[k].md.chunks_received_count <= kv[k].md.total_chunks

\* C8: when every index of an upload was uploaded exactly once, in whatever
\* order, the committed chunk table lists the chunks by ascending index, and a
\* download of the file that is admitted returns exactly the plaintexts of
\* indices 0, 1, ..., total_chunks - 1 in that order.
C8_InOrderRoundTrip ==
    /\ \A f \in DOMAIN files :
          SentExactlyOnce(f) =>
              /\ Len(files[f].chunks_metadata) = files[f].total_chunks
              /\ \A j \in 1..files[f].total_chunks :
                    /\ files[f].chunks_metadata[j].index = j - 1
                    /\ files[f].chunks_metadata[j].filename = <<UploadOf(f), j - 1>>
    /\ \A t \in Tasks :
          /\ task[t].op = "download"
          /\ task[t].pc = "done"
          /\ task[t].res \in {"OK", "Stream:aborted", "Encryption:dek"}
          /\ SentExactlyOnce(task[t].file_id)
          => /\ task[t].res = "OK"
             /\ task[t].body = Concatenation(task[t].file_id)

\* a two-chunk file whose index 1 arrived before index 0 (the earlier arrival
\* holds the smaller nonce), with distinct plaintexts, has been downloaded
C8_Witness ==
    \E t \in Tasks :
        /\ task[t].op = "download"
        /\ task[t].pc = "done"
        /\ task[t].res = "OK"
        /\ SentExactlyOnce(task[t].file_id)
        /\ files[task[t].file_id].total_chunks = 2
        /\ files[task[t].file_id].chunks_metadata[2].nonce
              < files[task[t].file_id].chunks_metadata[1].nonce
        /\ task[t].body[1] # task[t].body[2]

\* C10: finalize never goes on to the commit with a session whose
\* chunks_received differs from total_chunks: it cleans up and answers
\* Validation, and at that answer no File record was added, used_bytes is what
\* it was, and the session record and the user's upload lock are both absent.
C10_IncompleteFinalizeCleansUp ==
    \A t \in Tasks :
        task[t].op = "finalize" =>
            /\ task[t].pc \in {"f_tx", "f_kek", "f_insert"} =>
                  task[t].md.chunks_received_count = task[t].md.total_chunks
            /\ (task[t].pc \in {"cl_files", "cl_key", "cl_lock"}
                   /\ task[t].md.chunks_received_count # task[t].md.total_chunks) =>
                  /\ task[t].after = "Validation:incomplete"
                  /\ Len(files) = task[t].nfiles0
                  /\ used[task[t].u] = task[t].used0
            /\ (task[t].pc = "done" /\ task[t].res = "Validation:incomplete") =>
                  /\ Len(files) = task[t].nfiles0
                  /\ used[task[t].u] = task[t].used0
                  /\ <<task[t].u, task[t].id>> \notin DOMAIN kv
                  /\ task[t].u \notin DOMAIN lock

\* finalize has refused an upload that had staged a chunk, with a file already
\* committed for the user
C10_Witness ==
    \E t \in Tasks :
        /\ task[t].op = "finalize"
        /\ task[t].pc = "done"
        /\ task[t].res = "Validation:incomplete"
        /\ task[t].used0 > 0
        /\ accepted[task[t].id][0].n > 0

\* C11: once cleanup has run for an upload (a cancel, or a finalize refused as
\* incomplete or over quota), no staged chunk file of that upload is on disk,
\* whatever indices had been accepted.
C11_CleanupLeavesNoChunk ==
    \A t \in Tasks :
        /\ task[t].pc = "done"
        /\ \/ task[t].op = "cancel" /\ task[t].res = "OK"
           \/ task[t].op = "finalize"
                /\ task[t].res \in {"Validation:incomplete", "Validation:quota"}
        => \A c \in DOMAIN disk : c[1] # task[t].id

\* C12: finalize of a complete upload whose total_size exceeds quota - used at
\* finalize time never goes on to the commit: it cleans up and answers
\* Validation, and at that answer no File record was added, used_bytes is what
\* it was, and the session record, its staged chunks and the user's upload
\* lock are gone.
C12_OverQuotaFinalizeCleansUp ==
    \A t \in Tasks :
        task[t].op = "finalize" =>
            /\ task[t].pc \in {"f_kek", "f_insert"} =>
                  task[t].md.total_size <= Quota - used[task[t].u]
            /\ (task[t].pc \in {"cl_files", "cl_key", "cl_lock"}
                   /\ task[t].after = "Validation:quota") =>
                  /\ task[t].md.chunks_received_count = task[t].md.total_chunks
                  /\ task[t].md.total_size > Quota - used[task[t].u]
                  /\ Len(files) = task[t].nfiles0
                  /\ used[task[t].u] = task[t].used0
            /\ (task[t].pc = "done" /\ task[t].res = "Validation:quota") =>
                  /\ Len(files) = task[t].nfiles0
                  /\ used[task[t].u] = task[t].used0
                  /\ <<task[t].u, task[t].id>> \notin DOMAIN kv
                  /\ task[t].u \notin DOMAIN lock
                  /\ \A c \in DOMAIN disk : c[1] # task[t].id

\* finalize has refused, for quota, an upload whose chunk had been staged
C12_Witness ==
    \E t \in Tasks :
        /\ task[t].op = "finalize"
        /\ task[t].pc = "done"
        /\ task[t].res = "Validation:quota"
        /\ accepted[task[t].id][0].n > 0

\* C13: when finalize has committed, exactly one File record was added, with
\* status "completed" and the session's total_size, and used_bytes has grown
\* by exactly total_size; when it answers OK the session record and the user's
\* upload lock are absent, so the user's next init is not refused for an
\* upload in progress.
C13_FinalizeCommitsOnce ==
    \A t \in Tasks :
        task[t].op = "finalize" =>
            /\ task[t].pc = "f_del" =>
                  LET md == kv[<<task[t].u, task[t].id>>].md
                      f == files[task[t].nfiles0 + 1]
                  IN /\ Len(files) = task[t].nfiles0 + 1
                     /\ f.upload_status = "completed"
                     /\ f.user_id = task[t].u
                     /\ f.file_size = md.total_size
                     /\ UploadOf(task[t].nfiles0 + 1) = task[t].id
                     /\ used[task[t].u] = task[t].used0 + md.total_size
            /\ (task[t].pc = "f_dellock" \/ (task[t].pc = "done" /\ task[t].res = "OK")) =>
                  /\ Len(files) = task[t].nfiles0 + 1
                  /\ used[task[t].u] = task[t].used0 + files[task[t].nfiles0 + 1].file_size
                  /\ <<task[t].u, task[t].id>> \notin DOMAIN kv
            /\ (task[t].pc = "done" /\ task[t].res = "OK") =>
                  task[t].u \notin DOMAIN lock

\* a second upload of the user has been finalized: its init was admitted
\* after the first finalize, and its file and debit were added to the first's
C13_Witness ==
    \E t \in Tasks :
        /\ task[t].op = "finalize"
        /\ task[t].pc = "done"
        /\ task[t].res = "OK"
        /\ task[t].nfiles0 = 1
        /\ task[t].used0 > 0
        /\ task[t].id = 2

\* ---- one single-chunk upload under two requests in flight at once: chunk,
\* finalize and cancel requests of the same upload overlap; the client sends
\* the chunk until one request of it was accepted
OverlapRequests(t) ==
    \/ \E u \in Users :
          nextUpload < 1 /\ InitUploadCheckLock(t, u, 1, 1)
    \/ \E u \in Users, id \in 1..nextUpload :
          NotYetSent(id) /\ UploadChunkLoad(t, u, id, 0, "a")
    \/ \E u \in Users, id \in 1..nextUpload :
          Len(files) < 1 /\ FinalizeLoad(t, u, id)
    \/ \E u \in Users, id \in 1..nextUpload : CancelLoad(t, u, id)

OverlapSteps(t) ==
    \/ init_upload(t)
    \/ upload_chunk(t)
    \/ finalize_upload(t)
    \/ cleanup_failed_upload(t)
    \/ Return(t)

NextOverlap ==
    \/ \E t \in Tasks : OverlapRequests(t)
    \/ \E t \in Tasks : OverlapSteps(t)

SpecOverlap == Init /\ [][NextOverlap]_vars

\* the request in slot t has ended upload id: its cancel, its refused finalize
\* or its committed finalize has deleted the session record
Ended(t) ==
    /\ task[t].op \in {"cancel", "finalize"}
    /\ \/ task[t].pc \in {"cl_lock", "f_dellock"}
       \/ task[t].pc = "done"
            /\ task[t].res \in {"OK", "Validation:incomplete", "Validation:quota"}

\* C14: once a cancel or a finalize has ended an upload, its session record
\* stays absent: no chunk, finalize or cancel request of that upload, in
\* flight when it ended or issued later, brings the record back.
C14_EndedStaysEnded ==
    \A t \in Tasks : Ended(t) => <<task[t].u, task[t].id>> \notin DOMAIN kv

\* ---- disk reclamation: uploads that are started and left alone, under the
\* clock and the sweeper.  Sessions are created early enough for the clock's
\* bound to leave room for the sweeper's age test to pass; the handlers run
\* to their end, keys past their TTL go, time advances and the hourly sweeper
\* keeps running (weak fairness on each).
ReclaimRequests(t) ==
    \/ \E u \in Users, n \in 1..MaxChunks :
          /\ sweep.pc = "s_idle"
          /\ nextUpload < MaxUploads
          /\ now + UPLOAD_EXPIRATION_SECS < MaxTime
          /\ InitUploadCheckLock(t, u, 1, n)
    \/ \E u \in Users, id \in 1..nextUpload, idx \in 0..(MaxChunks - 1), d \in Data :
          /\ sweep.pc = "s_idle"
          /\ id \in DOMAIN accepted
          /\ idx \in DOMAIN accepted[id]
          /\ accepted[id][idx].n = 0
          /\ UploadChunkLoad(t, u, id, idx, d)

ReclaimSteps(t) ==
    \/ init_upload(t)
    \/ upload_chunk(t)
    \/ Return(t)

SweeperRun ==
    \/ Quiet(SeqTask) /\ SweepStart
    \/ cleanup_expired_uploads

ReclaimClock ==
    \/ Calm /\ Tick
    \/ \E k \in Users \X (1..nextUpload) : Calm /\ ExpireUpload(k)
    \/ \E u \in Users : Calm /\ ExpireLock(u)

NextReclaim ==
    \/ ReclaimRequests(SeqTask)
    \/ ReclaimSteps(SeqTask)
    \/ SweeperRun
    \/ ReclaimClock

SpecReclaim ==
    /\ Init
    /\ [][NextReclaim]_vars
    /\ WF_vars(ReclaimSteps(SeqTask))
    /\ WF_vars(SweeperRun)
    /\ WF_vars(ReclaimClock)

\* C15: every staged chunk file of a session that is never finalized or
\* cancelled is eventually deleted.
C15_StagedChunksReclaimed ==
    \A c \in (1..MaxUploads) \X (0..(MaxChunks - 1)) :
        (c \in DOMAIN disk) ~> (c \notin DOMAIN disk)

\* ---- requests through the router while sessions and tokens run out: the
\* first client sends requests to every route, the second one logs in and out
\* meanwhile; a request carries any cookies and header (a login's are not read)
Sends(r) == IF r = "r1" THEN Endpoints ELSE login_routes \cup {"auth/logout"}

RouterRequests(r) ==
    \/ /\ "auth/login" \in Sends(r)
       /\ Route(r, "auth/login", 0, 0, 0)
    \/ \E e \in Sends(r) \ login_routes, sid \in 0..MaxSessions, p \in CsrfPairs :
           Route(r, e, sid, p[1], p[2])

RouterSteps(r) ==
    \/ require_auth(r)
    \/ verify_csrf(r)
    \/ login(r)
    \/ logout(r)
    \/ Handle(r)

RouterClock ==
    \/ RouterTick
    \/ \E sid \in 1..MaxSessions : ExpireSession(sid)
    \/ \E token \in 1..MaxSessions : ExpireCsrf(token)

NextRouter ==
    \/ \E r \in Clients : RouterRequests(r)
    \/ \E r \in Clients : RouterSteps(r)
    \/ RouterClock

SpecRouter == Init /\ [][NextRouter]_vars

\* the request reaches the handler of its route in this step
Executes(r) == req[r].pc # "handler" /\ req'[r].pc = "handler"

\* C16: a request with an unsafe method on an endpoint behind authentication
\* (the upload routes and recalculate-quota among them) reaches its handler
\* only with the Session of a valid session attached and with a CSRF token
\* that is the same in cookie and header and is present in the KV store.
C16_UnsafeRequestsCarryCsrf ==
    [][\A r \in Clients :
          /\ Executes(r)
          /\ req'[r].endpoint \in init_routes \cup protected_routes
          /\ MethodOf(req'[r].endpoint) \notin {"GET", "HEAD", "OPTIONS"}
          => /\ req'[r].ext # 0
             /\ req'[r].csrf_cookie # 0
             /\ req'[r].csrf_cookie = req'[r].csrf_header
             /\ req'[r].csrf_cookie \in DOMAIN csrf]_vars

\* require_auth attaches the Session to the request in this step
Authenticates(r) == req[r].pc = "require_auth" /\ req'[r].ext # 0

NextDownloadSlots == download_calls

SpecDownloadSlots == Init /\ [][NextDownloadSlots]_vars

\* C18: a download whose body is streaming holds a permit of the download
\* pool, taken before the stream started and kept until the stream has
\* finished or aborted, so no more than DOWNLOAD_BUFFER_SLOTS downloads are
\* streaming at once.
C18_StreamingHoldsPermit ==
    /\ \A d \in DownloadCalls : download_req[d].pc = "streaming" => download_req[d].permit
    /\ Cardinality({d \in DownloadCalls : download_req[d].pc = "streaming"})
          <= DOWNLOAD_BUFFER_SLOTS

\* ---- the upload semaphore: more concurrent chunk uploads than slots
NextUploadSlots == chunk_calls

SpecUploadSlots == Init /\ [][NextUploadSlots]_vars

\* the calls of upload_chunk that hold a permit
Holders == {c \in ChunkCalls : chunk_req[c].permit}

\* C19: a call of upload_chunk that is reading or holding a request body holds
\* a permit it took before the read, at most UPLOAD_BUFFER_SLOTS calls do so
\* at once, and every exit returns the permit exactly once: the permits held
\* and the permits available always add up to the pool, and a call that has
\* left holds none.
C19_BodyReadersHoldPermits ==
    /\ \A c \in ChunkCalls :
          /\ chunk_req[c].pc \in {"read", "store"} => chunk_req[c].permit
          /\ chunk_req[c].pc \in {"idle", "acquire"} => ~chunk_req[c].permit
    /\ Cardinality({c \in ChunkCalls : chunk_req[c].pc \in {"read", "store"}})
          <= UPLOAD_BUFFER_SLOTS
    /\ upload_limiter + Cardinality(Holders) = UPLOAD_BUFFER_SLOTS
    /\ (\A c \in ChunkCalls : chunk_req[c].pc = "idle")
          => upload_limiter = UPLOAD_BUFFER_SLOTS

\* a call has left through an error and returned its permit; the pool is
\* exhausted again by two calls, one reading its body and one holding it
C19_Witness ==
    /\ upload_limiter = 0
    /\ \E c \in ChunkCalls : chunk_req[c].pc = "idle" /\ chunk_req[c].res = "Multipart"
    /\ \E c \in ChunkCalls : chunk_req[c].pc = "read"
    /\ \E c \in ChunkCalls : chunk_req[c].pc = "store"

\* ---- downloads of two concurrent requests against a stored file (one of
\* whose chunks may be missing) and against a file that does not exist, while
\* the download lock's TTL runs
DownloadLockRequests(t) ==
    \E u \in Users, f \in 1..MaxFiles : DownloadCheckLock(t, u, f)

DownloadLockSteps(t) ==
    \/ download_file(t)
    \/ Return(t)

DownloadLockClock ==
    \/ Tick
    \/ \E u \in Users : ExpireDownloadLock(u)

NextDownloadLock ==
    \/ \E t \in Tasks : DownloadLockRequests(t)
    \/ \E t \in Tasks : DownloadLockSteps(t)
    \/ DownloadLockClock

SpecDownloadLock == InitDownload /\ [][NextDownloadLock]_vars

\* a download request (of the one user there is) arrives at the handler in
\* this step
Arrives(t) ==
    /\ Quiet(t)
    /\ task'[t].op = "download"
    /\ task'[t] # Idle

\* C20: once user_downloading:{user} is set, it stays set until its TTL has
\* elapsed, whether the download that set it is still running, has completed
\* or has failed, and every download of that user arriving meanwhile fails
\* with a Validation error; once the key is gone a download is admitted again.
C20_DownloadLockHeldForTtl ==
    [][\A u \in Users :
          /\ u \in DOMAIN dlock /\ dlock[u] > now
             => /\ u \in DOMAIN dlock'
                /\ dlock'[u] >= dlock[u]
          /\ u \in DOMAIN dlock
             => /\ dlock[u] <= now + DOWNLOAD_EXPIRATION_SECS
                /\ \A t \in Tasks :
                      Arrives(t) => task'[t].res = "Validation:download active"
          /\ u \notin DOMAIN dlock
             => \A t \in Tasks : Arrives(t) => task'[t].pc = "dl_set"]_vars

\* the first download has completed and its lock is still there; a second
\* download of the same user has been refused
C20_Witness ==
    /\ task["t1"].op = "download"
    /\ task["t1"].pc = "done"
    /\ task["t1"].res = "OK"
    /\ task["t2"].op = "download"
    /\ task["t2"].res = "Validation:download active"
    /\ "u1" \in DOMAIN dlock

\* ---- deletes through the handler and through the service, and downloads,
\* of files stored by single-chunk uploads, one request at a time
DeleteRequests(t) ==
    \/ \E u \in Users, s \in 1..Quota :
          nextUpload < MaxUploads /\ InitUploadCheckLock(t, u, s, 1)
    \/ \E u \in Users, id \in 1..nextUpload :
          NotYetSent(id) /\ UploadChunkLoad(t, u, id, 0, "a")
    \/ \E u \in Users, id \in 1..nextUpload :
          Len(files) < MaxFiles /\ FinalizeLoad(t, u, id)
    \/ \E u \in Users, f \in 1..MaxFiles : DeleteRead(t, u, f)
    \/ \E u \in Users, f \in 1..MaxFiles : ServiceDeleteMark(t, u, f)
    \/ \E u \in Users, f \in 1..MaxFiles : DownloadCheckLock(t, u, f)

DeleteSteps(t) ==
    \/ init_upload(t)
    \/ upload_chunk(t)
    \/ finalize_upload(t)
    \/ cleanup_failed_upload(t)
    \/ DeleteCommit(t)
    \/ \E db_error \in BOOLEAN : ServiceDeleteRelease(t, db_error)
    \/ download_file(t)
    \/ Return(t)

NextDelete ==
    \/ DeleteRequests(SeqTask)
    \/ DeleteSteps(SeqTask)

SpecDelete == Init /\ [][NextDelete]_vars

\* C21: the step that marks a file deleted also takes min(used_bytes, size)
\* off its owner's used_bytes (one transaction, never below 0); a delete that
\* answered success has left the file deleted; and a download that looks the
\* file up once it is marked deleted ends in NotFound.
C21_DeleteReleasesInOneTransaction ==
    [][/\ \A f \in DOMAIN files :
             ~files[f].is_deleted /\ files'[f].is_deleted
                => used'[files[f].user_id] =
                      Max(0, used[files[f].user_id] - files[f].file_size)
       /\ \A t \in Tasks :
             /\ task'[t].op \in {"delete", "svc_delete"} /\ task'[t].res = "OK"
                => files'[task'[t].file_id].is_deleted
             /\ /\ At(t, "download", "dl_file")
                /\ task[t].file_id \in DOMAIN files
                /\ files[task[t].file_id].is_deleted
                /\ task'[t] # task[t]
                => task'[t].res = "NotFound"]_vars

\* ---- recalculations of one request slot while the other one stores and
\* deletes files (single-chunk uploads)
OverlapRecalcRequests(t) ==
    \/ /\ t = SeqTask
       /\ \/ \E u \in Users, s \in 1..Quota :
                nextUpload < MaxUploads /\ InitUploadCheckLock(t, u, s, 1)
          \/ \E u \in Users, id \in 1..nextUpload :
                NotYetSent(id) /\ UploadChunkLoad(t, u, id, 0, "a")
          \/ \E u \in Users, id \in 1..nextUpload :
                Len(files) < MaxFiles /\ FinalizeLoad(t, u, id)
          \/ \E u \in Users, f \in 1..MaxFiles : DeleteRead(t, u, f)
    \/ /\ t # SeqTask
       /\ \E u \in Users : RecalculateSum(t, u)

OverlapRecalcSteps(t) ==
    \/ init_upload(t)
    \/ upload_chunk(t)
    \/ finalize_upload(t)
    \/ cleanup_failed_upload(t)
    \/ DeleteCommit(t)
    \/ RecalculateCommit(t)
    \/ Return(t)

NextOverlapRecalc ==
    \/ \E t \in Tasks : OverlapRecalcRequests(t)
    \/ \E t \in Tasks : OverlapRecalcSteps(t)

SpecOverlapRecalc == Init /\ [][NextOverlapRecalc]_vars

\* C22: when a recalculation commits, used_bytes of its user is the sum of the
\* sizes of the user's files that are not deleted as of that commit, also
\* when a finalize or a delete of the same user ran meanwhile.
C22_RecalculateCommitsTheSum ==
    [][\A t \in Tasks :
          At(t, "recalculate", "r_upd") /\ task'[t].res = "OK"
             => used'[task[t].u] = SumSizes(LiveFiles(task[t].u))]_vars

\* what a recalculation for user u makes of the ledger
Recalculated(ledger, u) == [ledger EXCEPT ![u] = SumSizes(LiveFiles(u))]

\* C23: recalculate-quota is idempotent.  With one request at a time, the
\* commit of a recalculation turns the ledger into what a recalculation makes
\* of it and touches nothing else, and a recalculation of the ledger it
\* leaves changes nothing: the second of two runs in a row is a no-op.
C23_RecalculateIdempotent ==
    [][\A t \in Tasks :
          At(t, "recalculate", "r_upd") /\ task'[t] # task[t]
             => /\ used' = Recalculated(used, task[t].u)
                /\ Recalculated(used', task[t].u) = used'
                /\ UNCHANGED <<now, kv, lock, dlock, disk, files, rowLock, sweep,
                               nextUpload, keks, kekCache, nextKey>>]_vars

\* a recalculation has answered for a user with a deleted and a live file,
\* and the ledger is the live file's size
C23_Witness ==
    /\ task[SeqTask].op = "recalculate"
    /\ task[SeqTask].pc = "done"
    /\ task[SeqTask].res = "OK"
    /\ \E f \in DOMAIN files : files[f].is_deleted
    /\ \E f \in DOMAIN files : ~files[f].is_deleted
    /\ used["u1"] = 1

\* C24: in every state at most one keks row is active and not deprecated,
\* however the calls of ensure_kek_exists, get_active_kek and
\* get_kek_by_version of the two instances interleave.
C24_OneActiveKek == Cardinality(ActiveVersions) <= 1

\* rows of two versions exist, the first one active, while a call that found
\* no active row is about to insert the key it generated for version 1
C24_Witness ==
    /\ DOMAIN keks = {1, 2}
    /\ ActiveVersions = {1}
    /\ \E c \in KekCallers :
          /\ kekCall[c].pc = "k_insert"
          /\ kekCall[c].version = 1
          /\ kekCall[c].is_active


\* ---- init_upload at the limits of its request fields: a user whose quota
\* exceeds the per-file limit, one request at a time, no key reaching its TTL
InitLargeQuota ==
    /\ InitCommon
    /\ InitServing
    /\ storage_quota_bytes = [u \in Accounts |-> MAX_FILE_SIZE + 1]
    /\ disk = EmptyMap
    /\ files = <<>>

InitRequests(t) ==
    \/ \E u \in Users, s \in (0 - 1)..(MAX_FILE_SIZE + 1), n \in 0..MaxChunks :
          nextUpload < MaxUploads /\ InitUploadCheckLock(t, u, s, n)
    \/ \E u \in Users, id \in 1..nextUpload, idx \in ChunkIdx, d \in Data :
          MayUpload(u, id, idx) /\ UploadChunkLoad(t, u, id, idx, d)
    \/ \E u \in Users, id \in 1..nextUpload :
          Len(files) < MaxFiles /\ FinalizeLoad(t, u, id)
    \/ \E u \in Users, id \in 1..nextUpload : CancelLoad(t, u, id)

InitSteps(t) ==
    \/ init_upload(t)
    \/ upload_chunk(t)
    \/ finalize_upload(t)
    \/ cleanup_failed_upload(t)
    \/ Return(t)

NextInit ==
    \/ InitRequests(SeqTask)
    \/ InitSteps(SeqTask)

SpecInit == InitLargeQuota /\ [][NextInit]_vars

\* C25: an init of a user without an upload lock passes the checks on its
\* fields exactly when 0 < file_size <= MAX_FILE_SIZE and total_chunks > 0;
\* with enough free quota it then stores the session record, sets the lock and
\* answers success, and it answers success in no other way; a step that
\* rejects an init leaves the session records and the locks as they were.
C25_InitAcceptsExactlyValidRequests ==
    [][\A t \in Tasks :
          /\ \A u \in Users, s \in (0 - 1)..(MAX_FILE_SIZE + 1), n \in 0..MaxChunks :
                InitUploadCheckLock(t, u, s, n) /\ u \notin DOMAIN lock
                   => (task'[t].pc = "i_quota"
                          <=> (0 < s /\ s <= MAX_FILE_SIZE /\ n > 0))
          /\ (/\ At(t, "init", "i_quota")
              /\ task[t].file_size <= storage_quota_bytes[task[t].u] - used[task[t].u]
              /\ task'[t] # task[t])
                => task'[t].pc = "i_set"
          /\ At(t, "init", "i_set") /\ task'[t] # task[t]
                => task'[t].pc = "i_setlock"
          /\ At(t, "init", "i_setlock") /\ task'[t] # task[t]
                => /\ task'[t].res = "OK"
                   /\ <<task[t].u, task[t].id>> \in DOMAIN kv'
                   /\ task[t].u \in DOMAIN lock'
          /\ (/\ task'[t].op = "init"
              /\ task'[t].res = "OK"
              /\ task'[t] # task[t])
                => At(t, "init", "i_setlock")
          /\ (/\ task'[t].op = "init"
              /\ task'[t].res \notin {"none", "OK"}
              /\ task'[t] # task[t])
                => /\ Quiet(t) \/ At(t, "init", "i_quota")
                   /\ UNCHANGED <<kv, lock, nextUpload>>]_vars

\* an init of exactly MAX_FILE_SIZE has been answered with success: its
\* session record and the user's lock are there
C25_Witness ==
    /\ task[SeqTask].op = "init"
    /\ task[SeqTask].res = "OK"
    /\ "u1" \in DOMAIN lock
    /\ \E k \in DOMAIN kv : kv[k].md.total_size = MAX_FILE_SIZE


\* C26: a step of an init, a chunk upload, a cancel or a finalize changes no
\* user's used_bytes, except the finalize step that commits the file row; and a
\* cancel, or a finalize answered with an error, ends with the user's
\* used_bytes as the request found it.
C26_OnlyFinalizeCommitDebits ==
    [][\A t \in Tasks :
          /\ (/\ task'[t] # task[t]
              /\ \/ task[t].op \in {"init", "chunk", "cancel", "finalize"}
                 \/ task'[t].op \in {"init", "chunk", "cancel", "finalize"})
                => \/ used' = used
                   \/ At(t, "finalize", "f_insert") /\ task'[t].pc = "f_del"
          /\ (/\ task'[t].op \in {"cancel", "finalize"}
              /\ task'[t].pc = "done"
              /\ task'[t].op = "finalize" => task'[t].res # "OK")
                => used'[task'[t].u] = task'[t].used0]_vars

\* a second finalize has failed at its INSERT after a first one was debited:
\* used_bytes is what the first one left
C26_Witness ==
    /\ task[SeqTask].op = "finalize"
    /\ task[SeqTask].res = "Database:insert"
    /\ Len(files) = 1
    /\ used["u1"] = files[1].file_size
    /\ used["u1"] > 0


\* C27: a chunk request for an existing session whose chunk_index is at or
\* beyond total_chunks is answered with the Validation error in its first
\* step, and that step changes neither the staged files nor any session record.
C27_ChunkIndexOutOfRangeRejected ==
    [][\A t \in Tasks, u \in Users, id \in 1..MaxUploads, idx \in ChunkIdx, d \in Data :
          (/\ UploadChunkLoad(t, u, id, idx, d)
           /\ <<u, id>> \in DOMAIN kv
           /\ idx >= kv[<<u, id>>].md.total_chunks)
             => /\ task'[t].pc = "done"
                /\ task'[t].res = "Validation:chunk index"
                /\ UNCHANGED <<kv, disk>>]_vars

\* the only session has MaxChunks chunks, all received, and a chunk request
\* has been refused for its index: the index was total_chunks, and no file is
\* staged under it
C27_Witness ==
    /\ task[SeqTask].op = "chunk"
    /\ task[SeqTask].res = "Validation:chunk index"
    /\ nextUpload = 1
    /\ <<"u1", 1>> \in DOMAIN kv
    /\ kv[<<"u1", 1>>].md.total_chunks = MaxChunks
    /\ kv[<<"u1", 1>>].md.chunks_received_count = MaxChunks
    /\ <<1, MaxChunks>> \notin DOMAIN disk


\* ------------------------------------------------------------ change_password
\* SELECT the user; verify the old password against the stored hash; hash the
\* new one; rewrap the DEK: all on the copy of the row that was read
ChangePasswordRead(t, u, old_password, new_password, hash_salt, new_salt, nonce) ==
    /\ Quiet(t)
    /\ LET user == credentials[u]
           rewrapped == change_user_password_dek(user.encrypted_dek, user.dek_salt,
                                                 old_password, new_password,
                                                 new_salt, nonce)
       IN IF ~verify_password(old_password, user.password)
            THEN SetTask(t, Outcome("change_password", "Authentication"))
          ELSE IF "error" \in DOMAIN rewrapped
            THEN SetTask(t, Outcome("change_password", "Encryption"))
          ELSE SetTask(t, [op |-> "change_password", pc |-> "cp_update", res |-> "none",
                           u |-> u, old_password |-> old_password,
                           new_password |-> new_password,
                           enc_dek |-> user.encrypted_dek, dek_salt |-> user.dek_salt,
                           new_hashed_password |-> hash_password(new_password, hash_salt),
                           new_encrypted_dek |-> rewrapped.encrypted_dek,
                           new_dek_salt |-> rewrapped.dek_salt])
    /\ UNCHANGED <<now, kv, lock, dlock, disk, used, files, rowLock, sweep,
                   nextUpload, keks, kekCache, kekCall, booted, nextKey, wraps, accepted, pipe, front>>

\* UPDATE users SET password = $1, encrypted_dek = $2, dek_salt = $3: one statement
ChangePasswordUpdate(t) ==
    /\ At(t, "change_password", "cp_update")
    /\ credentials' = [credentials EXCEPT ![task[t].u] =
                          [password |-> task[t].new_hashed_password,
                           encrypted_dek |-> task[t].new_encrypted_dek,
                           dek_salt |-> task[t].new_dek_salt]]
    /\ SetTask(t, [op |-> "change_password", pc |-> "done", res |-> "OK",
                   u |-> task[t].u, new_password |-> task[t].new_password])
    /\ UNCHANGED <<now, kv, lock, dlock, disk, used, files, rowLock, sweep,
                   nextUpload, keks, kekCache, kekCall, booted, nextKey, wraps, accepted, pipe, sessions, csrf, req, ended, nextSession,
                   upload_limiter, chunk_req, download_limiter, download_req,
                   storage_quota_bytes, folders>>

\* ---- password changes from two requests at once, any passwords and salts
PasswordRequests(t) ==
    \E u \in Users, old_password \in Passwords, new_password \in Passwords,
       hash_salt \in Salts, new_salt \in Salts, new_nonce \in Salts :
          ChangePasswordRead(t, u, old_password, new_password, hash_salt, new_salt, new_nonce)

PasswordSteps(t) ==
    \/ ChangePasswordUpdate(t)
    \/ Return(t)

NextPassword ==
    \E t \in Tasks : PasswordRequests(t) \/ PasswordSteps(t)

SpecPassword == Init /\ [][NextPassword]_vars

\* what the row of user u opens to under password p
Opens(row, p) == decrypt_user_dek(row.encrypted_dek, row.dek_salt, p)

\* C28: the UPDATE of a password change leaves a row whose hash matches the
\* new password and whose wrapped DEK opens, under the new salt and the new
\* password, to the DEK that the wrapped DEK it read opened to under the old
\* salt and the old password; and after every step, whichever password the
\* stored hash matches also opens the stored wrapped DEK, to the user's DEK.
C28_ChangePasswordPreservesDek ==
    [][/\ \A t \in Tasks :
             At(t, "change_password", "cp_update") /\ task'[t].res = "OK"
                => /\ verify_password(task[t].new_password,
                                      credentials'[task[t].u].password)
                   /\ Opens(credentials'[task[t].u], task[t].new_password)
                         = decrypt_user_dek(task[t].enc_dek, task[t].dek_salt,
                                            task[t].old_password)
                   /\ Opens(credentials'[task[t].u], task[t].new_password) # <<"CryptoError">>
        /\ \A u \in Users, p \in Passwords :
              verify_password(p, credentials'[u].password)
                 => Opens(credentials'[u], p) = Dek(u)]_vars

\* a change to another password has succeeded: the row is under the new
\* password, with a salt other than the registration's
C28_Witness ==
    /\ task["t1"].op = "change_password"
    /\ task["t1"].res = "OK"
    /\ task["t1"].new_password = "p2"
    /\ verify_password("p2", credentials["u1"].password)
    /\ ~verify_password("p1", credentials["u1"].password)
    /\ credentials["u1"].dek_salt = 2


\* ---- chunk requests of one upload session in flight at once, each index
\* sent once
ChunkInFlight(id) ==
    {t \in Tasks : task[t].op = "chunk" /\ task[t].pc # "done" /\ task[t].id = id}

Unsent(id, idx) ==
    /\ id \in DOMAIN accepted
    /\ idx \in DOMAIN accepted[id]
    /\ accepted[id][idx].n = 0
    /\ \A t \in ChunkInFlight(id) : task[t].idx # idx

NextChunkRace ==
    \/ \E u \in Users, s \in 1..Quota, n \in 1..MaxChunks :
          nextUpload < 1 /\ InitUploadCheckLock(SeqTask, u, s, n)
    \/ \E t \in Tasks, u \in Users, id \in 1..nextUpload, idx \in ChunkIdx, d \in Data :
          Unsent(id, idx) /\ UploadChunkLoad(t, u, id, idx, d)
    \/ \E t \in Tasks : init_upload(t)
    \/ \E t \in Tasks : upload_chunk(t)
    \/ \E t \in Tasks : Return(t)

SpecChunkRace == Init /\ [][NextChunkRace]_vars

\* the indices of upload id whose chunk request was answered with success
Uploaded(id) == {i \in DOMAIN accepted[id] : accepted[id][i].n > 0}

\* C29: once no chunk request of a session is in flight, its record counts
\* exactly the chunk requests that succeeded, and holds for each uploaded index
\* the nonce of the file staged for it.
C29_ChunkUpdatesNotLost ==
    \A k \in DOMAIN kv :
       ChunkInFlight(k[2]) = {}
          => /\ kv[k].md.chunks_received_count = Cardinality(Uploaded(k[2]))
             /\ \A i \in Uploaded(k[2]) :
                   /\ <<k[2], i>> \in DOMAIN disk
                   /\ kv[k].md.chunk_nonces[i] = disk[<<k[2], i>>].n


\* C30: a chunk request for an index that was accepted before replaces the
\* staged file of that index by the new ciphertext, and its SET puts the new
\* nonce in chunk_nonces[i] and adds one more to chunks_received_count.
C30_ReuploadCountsAgain ==
    [][\A t \in Tasks :
          (/\ task[t].op = "chunk"
           /\ task[t].pc \in {"c_write", "c_save"}
           /\ task'[t] # task[t]
           /\ accepted[task[t].id][task[t].idx].n > 0)
             => LET k == <<task[t].u, task[t].id>>
                    c == <<task[t].id, task[t].idx>>
                IN /\ c \in DOMAIN disk
                   /\ disk'[c] = Encrypt(Dek(task[t].u), task[t].data, task[t].nonce)
                   /\ At(t, "chunk", "c_write") => disk'[c] # disk[c]
                   /\ At(t, "chunk", "c_save")
                        => /\ task'[t].res = "OK"
                           /\ kv'[k].md.chunk_nonces[task[t].idx] = task[t].nonce
                           /\ kv[k].md.chunk_nonces[task[t].idx] # task[t].nonce
                           /\ kv'[k].md.chunks_received_count
                                 = kv[k].md.chunks_received_count + 1]_vars

\* a single-chunk session whose only index was accepted twice: two chunks
\* received of one
C30_Witness ==
    /\ task[SeqTask].op = "chunk"
    /\ task[SeqTask].res = "OK"
    /\ \E k \in DOMAIN kv :
          /\ kv[k].md.total_chunks = 1
          /\ kv[k].md.chunks_received_count = 2
          /\ accepted[k[2]][0].n = 2


\* C31: no step of the expiry sweeper changes any user's used_bytes.
C31_SweeperLeavesUsedUnchanged ==
    [][sweep' # sweep => used' = used]_vars


\* the sessions younger than the sweeper's age limit
Young == {k \in DOMAIN kv : now - kv[k].md.created_at <= UPLOAD_EXPIRATION_SECS}

\* C32: a step of the sweeper removes no record of a session younger than 24
\* hours, no staged chunk of such a session, and not the upload lock of a user
\* who has such a session.
C32_SweeperTouchesOnlyExpired ==
    [][sweep' # sweep
          => \A k \in Young :
                /\ k \in DOMAIN kv'
                /\ \A c \in DOMAIN disk : c[1] = k[2] => c \in DOMAIN disk'
                /\ k[1] \in DOMAIN lock => k[1] \in DOMAIN lock']_vars


\* C33: a download whose file lookup finds no live file of the user is
\* answered NotFound, and the user's download lock is not set when it is.
C33_NotFoundDownloadTakesNoLock ==
    [][\A t \in Tasks :
          (/\ At(t, "download", "dl_file")
           /\ task'[t] # task[t]
           /\ \/ task[t].file_id \notin DOMAIN files
              \/ files[task[t].file_id].user_id # task[t].u
              \/ files[task[t].file_id].is_deleted)
             => /\ task'[t].res = "NotFound"
                /\ task[t].u \notin DOMAIN dlock']_vars


\* the indices of the chunks of the served file that cannot be read or decrypted
Unreadable == {i \in 0..(Len(PipeTable) - 1) : ~ChunkReadable(PipeTable[i + 1], PipeDek)}

\* C34: if chunk k of the served file cannot be read or decrypted, no chunk
\* with index k or more is ever emitted and the stream never ends normally;
\* once it has ended, what was emitted is the plaintexts of chunks 0..k-1 in
\* order, k being the first such chunk.
C34_StreamStopsAtFailedChunk ==
    \A k \in Unreadable :
       /\ \A j \in DOMAIN pipe.order : pipe.order[j] < k
       /\ pipe.status # "done"
       /\ (pipe.status = "aborted" /\ \A i \in Unreadable : k <= i)
             => /\ pipe.order = [j \in 1..k |-> j - 1]
                /\ pipe.out = [j \in 1..k |-> ChunkPlaintext(PipeTable[j], PipeDek)]

\* the stream has ended at chunk 1, with chunk 0 emitted and chunk 2 already
\* handed to the pipeline
C34_Witness ==
    /\ pipe.status = "aborted"
    /\ Unreadable = {1}
    /\ Len(pipe.out) = 1
    /\ pipe.next = 3


\* C35: between requests and sweeper runs, every user with an upload session
\* record that has not reached its TTL also has its upload lock.
C35_LiveSessionHasLock ==
    Calm => \A k \in DOMAIN kv : kv[k].exp > now => k[1] \in DOMAIN lock


\* C36: a finalize inserts a File row and debits used_bytes only for an upload
\* session that no File row was made from before.
C36_OneFilePerUpload ==
    [][\A t \in Tasks :
          (/\ At(t, "finalize", "f_insert")
           /\ files' # files \/ used' # used)
             => \A f \in DOMAIN files : UploadOf(f) # task[t].id]_vars


\* ---- delete requests in flight at once, on files stored by single-chunk
\* uploads made one at a time
NextDeleteRace ==
    \/ \E u \in Users, s \in 1..Quota :
          nextUpload < MaxUploads /\ InitUploadCheckLock(SeqTask, u, s, 1)
    \/ \E u \in Users, id \in 1..nextUpload :
          NotYetSent(id) /\ UploadChunkLoad(SeqTask, u, id, 0, "a")
    \/ \E u \in Users, id \in 1..nextUpload :
          Len(files) < MaxFiles /\ FinalizeLoad(SeqTask, u, id)
    \/ \E t \in Tasks, u \in Users, f \in 1..MaxFiles : DeleteRead(t, u, f)
    \/ init_upload(SeqTask)
    \/ upload_chunk(SeqTask)
    \/ finalize_upload(SeqTask)
    \/ cleanup_failed_upload(SeqTask)
    \/ \E t \in Tasks : DeleteCommit(t)
    \/ \E t \in Tasks : Return(t)

SpecDeleteRace == Init /\ [][NextDeleteRace]_vars

\* C37: a delete request reduces used_bytes only when the file it deletes was
\* not deleted yet, so that a file's size is released once.
C37_ReleasedOnce ==
    [][\A t \in Tasks :
          At(t, "delete", "d_tx") /\ task'[t] # task[t] /\ used' # used
             => ~files[task[t].file_id].is_deleted]_vars


\* ---- the ledger under finalize into folders, file delete, recursive folder
\* delete and recalculation, one request at a time, no key reaching its TTL
LedgerRequests(t) ==
    \/ \E u \in Users, s \in 1..Quota :
          nextUpload < MaxUploads /\ InitUploadCheckLock(t, u, s, 1)
    \/ \E u \in Users, id \in 1..nextUpload :
          NotYetSent(id) /\ UploadChunkLoad(t, u, id, 0, "a")
    \/ \E u \in Users, id \in 1..nextUpload, d \in FolderIds \cup {NoFolder} :
          Len(files) < MaxFiles /\ FinalizeLoadInto(t, u, id, d)
    \/ \E u \in Users, f \in 1..MaxFiles : DeleteRead(t, u, f)
    \/ \E u \in Users, d \in FolderIds : DeleteFolderFiles(t, u, d)
    \/ \E u \in Users : RecalculateSum(t, u)

LedgerSteps(t) ==
    \/ init_upload(t)
    \/ upload_chunk(t)
    \/ finalize_upload(t)
    \/ cleanup_failed_upload(t)
    \/ DeleteCommit(t)
    \/ DeleteFolderFolders(t)
    \/ RecalculateCommit(t)
    \/ Return(t)

NextLedger ==
    \/ LedgerRequests(SeqTask)
    \/ LedgerSteps(SeqTask)

SpecLedger == Init /\ [][NextLedger]_vars

\* C38: whenever no request is in progress, each user's used_bytes is the sum
\* of the sizes of that user's File records that are not deleted.
C38_LedgerMatchesFiles ==
    (\A t \in Tasks : task[t].pc = "done")
       => \A u \in Users : used[u] = SumSizes(LiveFiles(u))


\* ---- user isolation: u1 uploads, finalizes and deletes; u2, who owns no
\* session and no file, sends chunk, finalize, cancel, download and delete
\* requests for every upload id and file id; one request at a time
Intruder == "u2"

IntruderRequests(t) ==
    \/ \E id \in 1..MaxUploads, idx \in ChunkIdx, d \in Data :
          UploadChunkLoad(t, Intruder, id, idx, d)
    \/ \E id \in 1..MaxUploads : FinalizeLoad(t, Intruder, id)
    \/ \E id \in 1..MaxUploads : CancelLoad(t, Intruder, id)
    \/ \E f \in 1..MaxFiles : DownloadCheckLock(t, Intruder, f)
    \/ \E f \in 1..MaxFiles : DeleteRead(t, Intruder, f)

OwnerRequests(t) ==
    \/ \E u \in Users, s \in 1..Quota, n \in 1..MaxChunks :
          nextUpload < MaxUploads /\ InitUploadCheckLock(t, u, s, n)
    \/ \E u \in Users, id \in 1..nextUpload, idx \in ChunkIdx :
          Unsent(id, idx) /\ UploadChunkLoad(t, u, id, idx, "a")
    \/ \E u \in Users, id \in 1..nextUpload :
          Len(files) < MaxFiles /\ FinalizeLoad(t, u, id)
    \/ \E u \in Users, f \in 1..MaxFiles : DeleteRead(t, u, f)
    \/ \E u \in Users, f \in 1..MaxFiles : DownloadCheckLock(t, u, f)

IsolationSteps(t) ==
    \/ init_upload(t)
    \/ upload_chunk(t)
    \/ finalize_upload(t)
    \/ cleanup_failed_upload(t)
    \/ DeleteCommit(t)
    \/ download_file(t)
    \/ Return(t)

NextIsolation ==
    \/ OwnerRequests(SeqTask)
    \/ IntruderRequests(SeqTask)
    \/ IsolationSteps(SeqTask)

SpecIsolation == Init /\ [][NextIsolation]_vars

\* C39: a request of u2 is never answered with success, and neither its first
\* step nor any later one changes a session record, a staged chunk, an upload
\* lock, a File row or used_bytes; it carries no body.
C39_UserIsolation ==
    [][\A t \in Tasks :
          /\ IntruderRequests(t)
                => /\ task'[t].res # "OK"
                   /\ UNCHANGED <<kv, disk, lock, files, used>>
          /\ (/\ "u" \in DOMAIN task[t]
              /\ task[t].u = Intruder
              /\ task'[t] # task[t])
                => /\ task'[t].res # "OK"
                   /\ "body" \in DOMAIN task'[t] => task'[t].body = <<>>
                   /\ UNCHANGED <<kv, disk, lock, files, used>>]_vars

\* u2's download of u1's live file has been answered NotFound, while u1 has an
\* upload session with a staged chunk
C39_Witness ==
    /\ task[SeqTask].op = "download"
    /\ task[SeqTask].res = "NotFound"
    /\ Intruder \in DOMAIN dlock
    /\ \E f \in DOMAIN files : files[f].user_id = "u1" /\ ~files[f].is_deleted
    /\ \E k \in DOMAIN kv : k[1] = "u1" /\ <<k[2], 0>> \in DOMAIN disk


\* ---- the upload lock over time: uploads are started, fed, finalized,
\* cancelled or left alone; the SET of the lock key may fail after the session
\* record was written.  Sessions are created early enough for the clock's bound
\* to cover the lock's TTL; the handlers run to their end (weak fairness).
\* The clock, the store's key expiry and the sweeper's own task do not wait
\* for the client: however many requests it sends, they get their turn between
\* two of them (strong fairness).

\* the second set_ex of init_upload returns an error: the request ends with
\* AppError::Redis, the session record stays, no lock key is written
InitUploadSetLockFails(t) ==
    /\ At(t, "init", "i_setlock")
    /\ Finish(t, "Redis")
    /\ UNCHANGED <<now, kv, lock, dlock, disk, used, files, rowLock, sweep,
                   nextUpload, keks, kekCache, kekCall, booted, nextKey, wraps, accepted, pipe, front>>

UnblockRequests(t) ==
    \/ \E u \in Users, n \in 1..MaxChunks :
          /\ sweep.pc = "s_idle"
          /\ nextUpload < MaxUploads
          /\ now + UPLOAD_EXPIRATION_SECS < MaxTime
          /\ InitUploadCheckLock(t, u, 1, n)
    \/ \E u \in Users, id \in 1..nextUpload, idx \in 0..(MaxChunks - 1) :
          /\ sweep.pc = "s_idle"
          /\ Unsent(id, idx)
          /\ UploadChunkLoad(t, u, id, idx, "a")
    \/ \E u \in Users, id \in 1..nextUpload :
          /\ sweep.pc = "s_idle"
          /\ Len(files) < MaxFiles
          /\ FinalizeLoad(t, u, id)
    \/ \E u \in Users, id \in 1..nextUpload :
          /\ sweep.pc = "s_idle"
          /\ CancelLoad(t, u, id)

UnblockSteps(t) ==
    \/ init_upload(t)
    \/ InitUploadSetLockFails(t)
    \/ upload_chunk(t)
    \/ finalize_upload(t)
    \/ cleanup_failed_upload(t)
    \/ Return(t)

NextUnblock ==
    \/ UnblockRequests(SeqTask)
    \/ UnblockSteps(SeqTask)
    \/ SweeperRun
    \/ ReclaimClock

SpecUnblock ==
    /\ Init
    /\ [][NextUnblock]_vars
    /\ WF_vars(UnblockSteps(SeqTask))
    /\ SF_vars(SweeperRun)
    /\ SF_vars(ReclaimClock)

\* C40: once a user has an upload session record or an upload lock, the
\* user's upload lock is eventually absent, whether the upload is finalized,
\* cancelled, abandoned, or its init request failed before setting the lock.
C40_UploadLockEventuallyAbsent ==
    \A u \in Users :
        ((\E k \in DOMAIN kv : k[1] = u) \/ u \in DOMAIN lock) ~> (u \notin DOMAIN lock)

\* an abandoned upload: its session record, kept alive by a chunk, has outlived
\* the lock's TTL, no request is running, and the lock is gone
C40_Witness ==
    /\ Calm
    /\ "u1" \notin DOMAIN lock
    /\ \E k \in DOMAIN kv :
          /\ k[1] = "u1"
          /\ now - kv[k].md.created_at >= UPLOAD_EXPIRATION_SECS
          /\ kv[k].md.chunks_received_count > 0

============================================================================
